---- MODULE Spec2Model ----
(***************************************************************************)
(* The transition storage of one origin Map (src/objects/transitions.cc):  *)
(* TransitionsAccessor over the encodings kUninitialized,                  *)
(* kMigrationTarget, kWeakRef and kFullTransitionArray, the sorted         *)
(* TransitionArray, its prototype transition cache, and the collector that *)
(* clears weak targets at allocation safepoints.                           *)
(***************************************************************************)
EXTENDS Integers, Sequences, FiniteSets, TLC

\* ---------------------------------------------------------------- bounds
\* TransitionsAccessor::kMaxNumberOfTransitions, scaled down.
kMaxNumberOfTransitions == 4
\* TransitionArray::kMaxCachedPrototypeTransitions, scaled down.
kMaxCachedPrototypeTransitions == 3

\* ------------------------------------------------------------- constants
kNotFound == -1

kData == 0
kAccessor == 1
NONE == 0
SEALED == 4
FROZEN == 5
DONT_ENUM == 2

\* A null Map() / a slot that holds no key.
NoMap == 0
NoKey == "none"

\* ------------------------------------------------------------- universe
\* Property names and the special transition symbols.
PropertyNames == {"x", "y"}
SpecialSymbols == {"frozen", "sealed", "nonextensible"}
\* The special symbols of the Inserts.
InsertedSymbols == {"frozen", "sealed"}
Keys == PropertyNames \cup SpecialSymbols

\* Name::hash(): "x" and "y" collide, the symbols lie on both sides.
Hash(name) ==
    CASE name = "frozen" -> 1
      [] name = "x" -> 2
      [] name = "y" -> 2
      [] name = "sealed" -> 3
      [] name = "nonextensible" -> 4
      [] OTHER -> 0

\* The target maps.  1..5 end in a property descriptor (key, kind,
\* attributes); 7 and 8 are the targets of special transitions.
PropertyTargets == 1..5
SpecialTargets == {7, 8}
Targets == PropertyTargets \cup SpecialTargets

\* The last added descriptor of a target map.
LastAdded(target) ==
    CASE target = 1 -> [key |-> "x", kind |-> kData, attributes |-> NONE]
      [] target = 2 -> [key |-> "x", kind |-> kData, attributes |-> NONE]
      [] target = 3 -> [key |-> "x", kind |-> kAccessor, attributes |-> NONE]
      [] target = 4 -> [key |-> "x", kind |-> kData, attributes |-> DONT_ENUM]
      [] target = 5 -> [key |-> "y", kind |-> kData, attributes |-> NONE]
      [] OTHER -> [key |-> NoKey, kind |-> kData, attributes |-> NONE]

IsSpecialTransition(name) == name \in SpecialSymbols

\* GetSimpleTransitionKey(map): the key of the last added descriptor.
GetSimpleTransitionKey(target) == LastAdded(target).key

\* GetTargetDetails(name, target): kind and attributes of the last added
\* descriptor (transitions are allowed only for the last added property).
GetTargetDetails(name, target) ==
    [kind |-> LastAdded(target).kind, attributes |-> LastAdded(target).attributes]

\* GetSimpleTargetDetails(map): the details of the last added descriptor.
GetSimpleTargetDetails(target) ==
    [kind |-> LastAdded(target).kind, attributes |-> LastAdded(target).attributes]

\* PropertyDetails::Empty()
EmptyDetails == [kind |-> kData, attributes |-> NONE]

\* ------------------------------------------------------ TransitionArray
\* A TransitionArray: n = number_of_transitions(), cap = Capacity(),
\* e[i] = (GetKey(i), GetRawTarget(i)) for i in 0..cap-1.
EmptySlot == [key |-> NoKey, target |-> NoMap]

CompareDetails(kind1, attributes1, kind2, attributes2) ==
    IF kind1 # kind2 THEN (IF kind1 < kind2 THEN -1 ELSE 1)
    ELSE IF attributes1 # attributes2
         THEN (IF attributes1 < attributes2 THEN -1 ELSE 1)
         ELSE 0

\* In case of hash collisions key1 is always "less" than key2.
CompareNames(key1, hash1, key2, hash2) ==
    IF key1 # key2 THEN (IF hash1 <= hash2 THEN -1 ELSE 1) ELSE 0

CompareKeys(key1, hash1, kind1, attributes1, key2, hash2, kind2, attributes2) ==
    LET cmp == CompareNames(key1, hash1, key2, hash2)
    IN  IF cmp # 0 THEN cmp
        ELSE CompareDetails(kind1, attributes1, kind2, attributes2)

\* The details an entry is ordered by: those of its target, or none for a
\* special transition.
EntryDetails(slot) ==
    IF IsSpecialTransition(slot.key) THEN EmptyDetails
    ELSE GetTargetDetails(slot.key, slot.target)

\* The linear search of SearchName over the entries 0..n-1: the result is
\* [index, ins]; ins is the out-parameter, left at `ins` when it is not
\* written.
RECURSIVE LinearSearch(_, _, _, _)
LinearSearch(array, name, number, ins) ==
    IF number >= array.n THEN [index |-> kNotFound, ins |-> array.n]
    ELSE IF Hash(array.e[number].key) > Hash(name)
         THEN [index |-> kNotFound, ins |-> number]
         ELSE IF array.e[number].key = name
              THEN [index |-> number, ins |-> ins]
              ELSE LinearSearch(array, name, number + 1, ins)

SearchName(array, name, ins) == LinearSearch(array, name, 0, ins)

SearchSpecialIn(array, symbol, ins) == SearchName(array, symbol, ins)

RECURSIVE SearchDetailsFrom(_, _, _, _, _, _)
SearchDetailsFrom(array, key, transition, kind, attributes, ins) ==
    IF transition < array.n /\ array.e[transition].key = key
    THEN LET target_details == GetTargetDetails(key, array.e[transition].target)
             cmp == CompareDetails(kind, attributes, target_details.kind,
                                   target_details.attributes)
         IN  IF cmp = 0 THEN [index |-> transition, ins |-> ins]
             ELSE IF cmp < 0 THEN [index |-> kNotFound, ins |-> transition]
             ELSE SearchDetailsFrom(array, key, transition + 1, kind, attributes, ins)
    ELSE [index |-> kNotFound, ins |-> transition]

SearchDetails(array, transition, kind, attributes, ins) ==
    SearchDetailsFrom(array, array.e[transition].key, transition, kind,
                      attributes, ins)

Search(array, kind, name, attributes, ins) ==
    LET found == SearchName(array, name, ins)
    IN  IF found.index = kNotFound THEN found
        ELSE SearchDetails(array, found.index, kind, attributes, found.ins)

SearchAndGetTarget(array, kind, name, attributes) ==
    LET found == Search(array, kind, name, attributes, kNotFound)
    IN  IF found.index = kNotFound THEN NoMap ELSE array.e[found.index].target

\* IsSortedNoDuplicates(): every entry is strictly below its successor.
IsSortedNoDuplicates(array) ==
    \A i \in 0..(array.n - 2) :
        LET a == array.e[i]
            b == array.e[i + 1]
        IN  CompareKeys(a.key, Hash(a.key), EntryDetails(a).kind,
                        EntryDetails(a).attributes,
                        b.key, Hash(b.key), EntryDetails(b).kind,
                        EntryDetails(b).attributes) < 0

\* -------------------------------------------- prototype transition cache
\* The cleared weak reference and the undefined value that fills freed slots.
ClearedValue == -2
UndefinedValue == -3

\* Maps cached per prototype, and Map::prototype().
Prototypes == {"p1", "p2"}
PrototypeTargets == {9, 10, 12}
PrototypeOf(map) ==
    IF map \in {9, 12} THEN "p1" ELSE IF map = 10 THEN "p2" ELSE "none"

\* The prototype transitions WeakFixedArray: cap = length() - header
\* (-1 for the empty_weak_fixed_array), n = NumberOfPrototypeTransitions,
\* slot[i] = Get(header + i).
EmptyWeakFixedArray == [cap |-> -1, n |-> 0, slot |-> << >>]

\* The live slots of a cache that hold a map.
LiveSlots(array) == {i \in 0..(array.n - 1) : array.slot[i] # ClearedValue}

RECURSIVE NthLiveSlot(_, _, _)
NthLiveSlot(array, k, from) ==
    IF array.slot[from] # ClearedValue
    THEN (IF k = 0 THEN from ELSE NthLiveSlot(array, k - 1, from + 1))
    ELSE NthLiveSlot(array, k, from + 1)

\* The count is lowered to the number of live slots, and no slot moves.
CompactWithoutMoving(array) ==
    [array |-> [array EXCEPT !.n = Cardinality(LiveSlots(array))],
     compacted |-> Cardinality(LiveSlots(array)) < array.n]

\* TransitionArray::CompactPrototypeTransitionArray, lines 323-353:
\* [array, compacted].
CompactPrototypeTransitionArray(array) ==
    LET number_of_transitions == array.n
        new_number_of_transitions == Cardinality(LiveSlots(array))
    IN  IF number_of_transitions = 0
        THEN [array |-> array, compacted |-> FALSE]
        ELSE [array |->
                 [array EXCEPT
                    !.n = new_number_of_transitions,
                    !.slot = [i \in DOMAIN array.slot |->
                                IF i < new_number_of_transitions
                                THEN array.slot[NthLiveSlot(array, i, 0)]
                                ELSE IF i < number_of_transitions
                                     THEN UndefinedValue
                                     ELSE array.slot[i]]],
              compacted |-> new_number_of_transitions < number_of_transitions]

\* The array grows to the requested capacity, whatever the maximum is.
GrowBeyondMaximum(array, requested_capacity) ==
    [cap |-> requested_capacity,
     n |-> IF array.cap < 0 THEN 0 ELSE array.n,
     slot |-> [i \in 0..(requested_capacity - 1) |->
                 IF i < array.cap THEN array.slot[i] ELSE UndefinedValue]]

\* TransitionArray::GrowPrototypeTransitionArray, lines 356-370;
\* CopyWeakFixedArrayAndGrow copies the slots and fills the new ones with
\* undefined.
GrowPrototypeTransitionArray(array, requested_capacity) ==
    LET capacity == array.cap
        new_capacity == IF kMaxCachedPrototypeTransitions < requested_capacity
                        THEN kMaxCachedPrototypeTransitions
                        ELSE requested_capacity
    IN  [cap |-> new_capacity,
         n |-> IF capacity < 0 THEN 0 ELSE array.n,
         slot |-> [i \in 0..(new_capacity - 1) |->
                     IF i < capacity THEN array.slot[i] ELSE UndefinedValue]]

\* Factory::NewTransitionArray(number_of_transitions, slack)
NewTransitionArray(number_of_transitions, slack) ==
    [n |-> number_of_transitions,
     cap |-> number_of_transitions + slack,
     e |-> [i \in 0..(number_of_transitions + slack - 1) |-> EmptySlot],
     proto |-> EmptyWeakFixedArray]

\* Map::SlackForArraySize(old_size, size_limit): geometric slack for an
\* array that takes one more entry than old_size, bounded so that its
\* capacity stays within size_limit.
SlackForArraySize(old_size, size_limit) ==
    LET growth == 1 + old_size \div 4
        max_slack == size_limit - (old_size + 1)
    IN  IF max_slack < growth THEN max_slack ELSE growth

\* TransitionArray::Set(i, key, target)
SetEntry(array, i, key, target) ==
    [array EXCEPT !.e[i] = [key |-> key, target |-> target]]

\* ------------------------------------------------------------ collector
\* A collection that finds the targets at the indices `dead` unreachable
\* compacts the array over the survivors and trims it to their number.
Survivors(array, dead) == {i \in 0..(array.n - 1) : i \notin dead}

RECURSIVE NthSurvivor(_, _, _)
NthSurvivor(alive, k, from) ==
    IF from \in alive
    THEN (IF k = 0 THEN from ELSE NthSurvivor(alive, k - 1, from + 1))
    ELSE NthSurvivor(alive, k, from + 1)

CompactTransitionArray(array, dead) ==
    LET alive == Survivors(array, dead)
        m == Cardinality(alive)
    IN  IF m = array.n THEN array
        ELSE [array EXCEPT !.n = m, !.cap = m,
                           !.e = [i \in 0..(m - 1) |-> array.e[NthSurvivor(alive, i, 0)]]]

\* ---------------------------------------------------------------- state
VARIABLES
    raw,        \* map_.raw_transitions(): [enc, target, arr]
    heap,       \* the TransitionArray objects, by address
    fatal,      \* a CHECK (or, in a debug build, a DCHECK) has failed
    last,       \* history: the last operation and the code path it took
    hist,       \* history: per (name, kind, attributes), the last target inserted
    collected,  \* history: a collection has removed or cleared an edge
    lock,       \* isolate_->full_transition_array_access()
    w,          \* the writer: its position in Insert and its locals
    rd,         \* a background reader: its position in a lookup and its locals
    mode,       \* the flags of map_ and FLAG_cache_prototype_transitions
    out,        \* the result of the last query
    walk,       \* the transition tree and the position of its traversal
    puts,       \* history: per prototype, the last PutPrototypeTransition
    pages       \* a BoundedPageAllocator: region_allocator_, page permissions

vars == <<raw, heap, fatal, last, hist, collected, lock, w, rd, mode, out, walk,
          puts, pages>>
history == <<last, hist, collected>>
threads == <<lock, w, rd>>
queries == <<mode, out, walk, puts, pages>>

SimpleTransitionFlags ==
    {"SIMPLE_PROPERTY_TRANSITION", "PROPERTY_TRANSITION", "SPECIAL_TRANSITION"}

\* The deprecated map's replacement, cached by SetMigrationTarget.
MigrationTargets == {11, 13}

Uninitialized == [enc |-> "kUninitialized", target |-> NoMap, arr |-> -1]
WeakRef(target) == [enc |-> "kWeakRef", target |-> target, arr |-> -1]
MigrationTarget(map) == [enc |-> "kMigrationTarget", target |-> map, arr |-> -1]
FullTransitionArray(address) ==
    [enc |-> "kFullTransitionArray", target |-> NoMap, arr |-> address]

\* transitions(), for reading in any encoding (an empty array when the
\* encoding is not kFullTransitionArray).
NoArray == NewTransitionArray(0, 0)
TransitionsOf(r, h) == IF r.enc = "kFullTransitionArray" THEN h[r.arr] ELSE NoArray
Transitions == TransitionsOf(raw, heap)

\* GetPrototypeTransitions(), lines 428-434, on the storage (r, h).
GetPrototypeTransitions(r, h) ==
    IF r.enc # "kFullTransitionArray" \/ h[r.arr].proto = EmptyWeakFixedArray
    THEN EmptyWeakFixedArray
    ELSE h[r.arr].proto

\* GetSimpleTransition()
GetSimpleTransition(r) == IF r.enc = "kWeakRef" THEN r.target ELSE NoMap

\* The (name, kind, attributes) tuple of an edge.
TupleOf(name, target) ==
    IF IsSpecialTransition(name) THEN <<name, kData, NONE>>
    ELSE <<name, GetTargetDetails(name, target).kind,
           GetTargetDetails(name, target).attributes>>
Tuples ==
    {TupleOf(LastAdded(t).key, t) : t \in PropertyTargets}
        \cup {TupleOf(s, 7) : s \in InsertedSymbols}

\* The calls Insert(name, target, flag) of the callers: a property
\* transition names the last added property of its target, a special
\* transition names a special symbol.
InsertCalls ==
    {[name |-> LastAdded(t).key, target |-> t, flag |-> f] :
        t \in PropertyTargets,
        f \in {"SIMPLE_PROPERTY_TRANSITION", "PROPERTY_TRANSITION"}}
    \cup {[name |-> "frozen", target |-> t, flag |-> "SPECIAL_TRANSITION"] :
            t \in SpecialTargets}
    \cup {[name |-> "sealed", target |-> 7, flag |-> "SPECIAL_TRANSITION"]}

\* The address of the one live TransitionArray: the array an operation
\* replaces is garbage once the new one is stored, and the collector moves
\* the new one into its place.
NewAddress == 0

\* The writer between two operations, after `ops` of them.
WriterIdle(ops) ==
    [pc |-> "idle", path |-> "none", call |-> [name |-> NoKey, target |-> NoMap,
                                               flag |-> "none"],
     result |-> -1, n |-> 0, ins |-> kNotFound, i |-> 0, ops |-> ops,
     before |-> NoArray, cache |-> EmptyWeakFixedArray, capacity |-> -1,
     transitions |-> 0]

\* The reader between two lookups.
ReaderIdle ==
    [pc |-> "idle", op |-> "none", tuple |-> <<NoKey, kData, NONE>>, arr |-> -1,
     len |-> 0, i |-> 0, result |-> <<>>, ok |-> {}, overlap |-> FALSE]

\* A map that is neither in dictionary mode nor a prototype map, with
\* the caching of prototype transitions enabled.
FastMode == [is_dictionary_map |-> FALSE, is_prototype_map |-> FALSE,
             cache_prototype_transitions |-> TRUE]

\* No query has been made; no traversal is under way.
NoResult == [op |-> "none"]
NoWalk == [pc |-> "none"]

\* No PutPrototypeTransition has been made for any prototype.
NoPut == [target |-> NoMap, stored |-> FALSE, cleared |-> FALSE]
NoPuts == [p \in Prototypes |-> NoPut]

\* ------------------------------------------------ BoundedPageAllocator
\* size() of the allocator, in pages of allocate_page_size_.
NumberOfPages == 4
PageAddresses == 0..(NumberOfPages - 1)
PagePermissions == {"kNoAccess", "kReadWrite"}
\* RegionAllocator::kAllocationFailure: no page address.
kAllocationFailure == -1

\* BoundedPageAllocator::BoundedPageAllocator: region_allocator_ holds, per
\* address, the size of the used region that begins there (0: none begins
\* there); the reservation it hands out is not accessible.
BoundedPageAllocator ==
    [region_allocator_ |-> [address \in PageAddresses |-> 0],
     permissions |-> [address \in PageAddresses |-> "kNoAccess"]]

Init ==
    /\ raw = Uninitialized
    /\ heap = << >>
    /\ fatal = FALSE
    /\ last = [op |-> "Init", path |-> "none"]
    /\ hist = [t \in Tuples |-> NoMap]
    /\ collected = FALSE
    /\ lock = "free"
    /\ w = WriterIdle(0)
    /\ rd = ReaderIdle
    /\ mode = FastMode
    /\ out = NoResult
    /\ walk = NoWalk
    /\ puts = NoPuts
    /\ pages = BoundedPageAllocator

\* ReplaceTransitions(new_transitions): the release store of the new
\* storage; the replaced array is garbage.
ReplaceTransitions(new_raw, new_heap) ==
    /\ raw' = new_raw
    /\ heap' = new_heap

ReplaceWithArray(result) ==
    ReplaceTransitions(FullTransitionArray(NewAddress), NewAddress :> result)

\* History of an Insert.  The inserted targets are remembered for as long
\* as no collection has happened.
NoHistory == [t \in Tuples |-> NoMap]
Record(call, path, cleared) ==
    /\ last' = [op |-> "Insert", path |-> path]
    /\ collected' = (collected \/ cleared)
    /\ hist' = IF collected \/ cleared THEN NoHistory
               ELSE [hist EXCEPT ![TupleOf(call.name, call.target)] = call.target]

\* History of an Insert that ended in a fatal failure.
RecordFatal(call, path) ==
    /\ last' = [op |-> "Insert", path |-> path]
    /\ UNCHANGED <<hist, collected>>

\* Insert, lines 44-58: no transitions at all yet.
InsertUninitialized(call) ==
    /\ ~fatal
    /\ UNCHANGED <<threads, queries>>
    /\ raw.enc \in {"kUninitialized", "kMigrationTarget"}
    /\ IF call.flag = "SIMPLE_PROPERTY_TRANSITION"
       THEN /\ ReplaceTransitions(WeakRef(call.target), << >>)
            /\ Record(call, "first-simple", FALSE)
       ELSE /\ ReplaceWithArray(SetEntry(NewTransitionArray(1, 0), 0,
                                         call.name, call.target))
            /\ Record(call, "first-full", FALSE)
    /\ UNCHANGED fatal

\* Insert, lines 64-73: the simple transition is replaced by an equal one.
SimpleOverwrites(call) ==
    /\ call.flag = "SIMPLE_PROPERTY_TRANSITION"
    /\ GetSimpleTransitionKey(raw.target) = call.name
    /\ GetSimpleTargetDetails(raw.target).kind
         = GetTargetDetails(call.name, call.target).kind
    /\ GetSimpleTargetDetails(raw.target).attributes
         = GetTargetDetails(call.name, call.target).attributes

InsertSimpleOverwrite(call) ==
    /\ ~fatal
    /\ UNCHANGED <<threads, queries>>
    /\ raw.enc = "kWeakRef"
    /\ SimpleOverwrites(call)
    /\ ReplaceTransitions(WeakRef(call.target), << >>)
    /\ Record(call, "simple-overwrite", FALSE)
    /\ UNCHANGED fatal

\* The new edge goes to index 1 of a two-entry array whose index 0 is
\* left for the cleared simple transition.
NewEdgeBesideCleared(call) ==
    [SetEntry(NewTransitionArray(1, 1), 1, call.name, call.target) EXCEPT !.n = 2]

\* Insert, lines 77-83: the array allocated for two entries takes the new
\* edge alone.
NewEdgeOnly(call) ==
    SetEntry(NewTransitionArray(1, 1), 0, call.name, call.target)

\* Insert, lines 75-88: the allocation of the two-entry array cleared the
\* simple transition.
InsertSimpleCleared(call) ==
    /\ ~fatal
    /\ UNCHANGED <<threads, queries>>
    /\ raw.enc = "kWeakRef"
    /\ ~SimpleOverwrites(call)
    /\ ReplaceWithArray(NewEdgeOnly(call))
    /\ Record(call, "simple-cleared", TRUE)
    /\ UNCHANGED fatal

\* Insert, lines 90-103: the search for the new edge in the one-entry array.
SearchInResult(result, call, ins) ==
    IF call.flag = "SPECIAL_TRANSITION"
    THEN SearchSpecialIn(result, call.name, ins)
    ELSE Search(result, GetTargetDetails(call.name, call.target).kind, call.name,
                GetTargetDetails(call.name, call.target).attributes, ins)

\* The two entries are written, the count stays at 1.
TwoEntriesCountedOne(result, simple_transition, insertion_index, call) ==
    LET moved == IF insertion_index = 0
                 THEN SetEntry(result, 1, GetSimpleTransitionKey(simple_transition),
                               simple_transition)
                 ELSE result
    IN  SetEntry(moved, insertion_index, call.name, call.target)

\* Insert, lines 107-115: the two-entry array.
TwoEntries(result, simple_transition, insertion_index, call) ==
    LET counted == [result EXCEPT !.n = 2]
        moved == IF insertion_index = 0
                 THEN SetEntry(counted, 1, GetSimpleTransitionKey(simple_transition),
                               simple_transition)
                 ELSE counted
    IN  SetEntry(moved, insertion_index, call.name, call.target)

\* Insert, lines 75-121: the simple transition and the new one go into a
\* two-entry array.
InsertSimpleToFull(call) ==
    /\ ~fatal
    /\ UNCHANGED <<threads, queries>>
    /\ raw.enc = "kWeakRef"
    /\ ~SimpleOverwrites(call)
    /\ LET simple_transition == raw.target
           result == SetEntry(NewTransitionArray(1, 1), 0,
                              GetSimpleTransitionKey(simple_transition),
                              simple_transition)
           found == SearchInResult(result, call, kNotFound)
       IN  /\ found.index = kNotFound
           /\ ReplaceWithArray(TwoEntries(result, simple_transition, found.ins, call))
    /\ Record(call, "simple-to-full", FALSE)
    /\ UNCHANGED fatal

\* The values of an insertion_index that was never written: 0, 1, or a
\* value that is no index of the two-entry array, for which the writes of
\* lines 114-115 fall outside the array and leave its index 1 as
\* allocated.
UnwrittenInsertionIndex == {0, 1, 2}
TwoEntriesAt(result, simple_transition, insertion_index, call) ==
    IF insertion_index \in {0, 1}
    THEN TwoEntries(result, simple_transition, insertion_index, call)
    ELSE [result EXCEPT !.n = 2]

\* Insert, lines 94-115 when the search finds the new edge's tuple in the
\* one-entry array: DCHECK_EQ(index, kNotFound) fails in a debug build; a
\* release build goes on with insertion_index never written, any value.
InsertSimpleDuplicate(call) ==
    /\ ~fatal
    /\ UNCHANGED <<threads, queries>>
    /\ raw.enc = "kWeakRef"
    /\ ~SimpleOverwrites(call)
    /\ LET simple_transition == raw.target
           result == SetEntry(NewTransitionArray(1, 1), 0,
                              GetSimpleTransitionKey(simple_transition),
                              simple_transition)
           found == SearchInResult(result, call, kNotFound)
       IN  /\ found.index # kNotFound
           /\ \/ /\ fatal' = TRUE
                 /\ UNCHANGED <<raw, heap>>
                 /\ RecordFatal(call, "simple-duplicate-fatal")
              \/ \E insertion_index \in UnwrittenInsertionIndex :
                    /\ ReplaceWithArray(TwoEntriesAt(result, simple_transition,
                                                     insertion_index, call))
                    /\ Record(call, "simple-duplicate", FALSE)
                    /\ UNCHANGED fatal

\* Insert, lines 142-145: the search for the new edge in the full array.
SearchInArray(array, call, ins) ==
    IF call.flag = "SPECIAL_TRANSITION"
    THEN SearchSpecialIn(array, call.name, ins)
    ELSE Search(array, GetTargetDetails(call.name, call.target).kind, call.name,
                GetTargetDetails(call.name, call.target).attributes, ins)

\* Insert, lines 146-152: an existing entry is overwritten.
InsertOverwrite(call) ==
    /\ ~fatal
    /\ UNCHANGED <<threads, queries>>
    /\ raw.enc = "kFullTransitionArray"
    /\ LET found == SearchInArray(Transitions, call, kNotFound)
       IN  /\ found.index # kNotFound
           /\ heap' = [heap EXCEPT ![raw.arr].e[found.index].target = call.target]
    /\ UNCHANGED <<raw, fatal>>
    /\ Record(call, "overwrite", FALSE)

\* Insert, lines 154-155: CHECK_LE(new_nof, kMaxNumberOfTransitions) fails.
InsertTooMany(call) ==
    /\ ~fatal
    /\ UNCHANGED <<threads, queries>>
    /\ raw.enc = "kFullTransitionArray"
    /\ SearchInArray(Transitions, call, kNotFound).index = kNotFound
    /\ Transitions.n + 1 > kMaxNumberOfTransitions
    /\ fatal' = TRUE
    /\ UNCHANGED <<raw, heap>>
    /\ RecordFatal(call, "too-many")

\* Insert, lines 163-169: the count, the shift of the entries above the
\* insertion index, and the new entry.
ShiftAndSet(array, number_of_transitions, insertion_index, call) ==
    [array EXCEPT
        !.n = number_of_transitions + 1,
        !.e = [i \in DOMAIN array.e |->
                 IF i = insertion_index
                 THEN [key |-> call.name, target |-> call.target]
                 ELSE IF i > insertion_index /\ i <= number_of_transitions
                      THEN array.e[i - 1]
                      ELSE array.e[i]]]

\* The entry is inserted in place whatever the capacity is.
InsertInPlaceAnyCapacity(call) ==
    /\ ~fatal
    /\ UNCHANGED <<threads, queries>>
    /\ raw.enc = "kFullTransitionArray"
    /\ LET array == Transitions
           found == SearchInArray(array, call, kNotFound)
       IN  /\ found.index = kNotFound
           /\ array.n + 1 <= kMaxNumberOfTransitions
           /\ heap' = [heap EXCEPT ![raw.arr] = ShiftAndSet(array, array.n, found.ins, call)]
    /\ UNCHANGED <<raw, fatal>>
    /\ Record(call, "in-place", FALSE)

\* Insert, lines 159-172: there is enough capacity.
InsertInPlace(call) ==
    /\ ~fatal
    /\ UNCHANGED <<threads, queries>>
    /\ raw.enc = "kFullTransitionArray"
    /\ LET array == Transitions
           found == SearchInArray(array, call, kNotFound)
       IN  /\ found.index = kNotFound
           /\ array.n + 1 <= kMaxNumberOfTransitions
           /\ array.n + 1 <= array.cap
           /\ heap' = [heap EXCEPT ![raw.arr] = ShiftAndSet(array, array.n, found.ins, call)]
    /\ UNCHANGED <<raw, fatal>>
    /\ Record(call, "in-place", FALSE)

\* The entries are copied around the new entry; the prototype transitions
\* are left behind.
CopyAndSetWithoutPrototypeTransitions(result, array, number_of_transitions, insertion_index, call) ==
    [result EXCEPT
        !.e = [i \in DOMAIN result.e |->
                 IF i < insertion_index THEN array.e[i]
                 ELSE IF i = insertion_index
                      THEN [key |-> call.name, target |-> call.target]
                      ELSE IF i <= number_of_transitions
                           THEN array.e[i - 1]
                           ELSE result.e[i]]]

\* Insert, lines 203-214: the prototype transitions and the entries of
\* `array` are copied into `result` around the new entry.
CopyAndSet(result, array, number_of_transitions, insertion_index, call) ==
    [result EXCEPT
        !.proto = IF array.proto # EmptyWeakFixedArray THEN array.proto ELSE @,
        !.e = [i \in DOMAIN result.e |->
                 IF i < insertion_index THEN array.e[i]
                 ELSE IF i = insertion_index
                      THEN [key |-> call.name, target |-> call.target]
                      ELSE IF i <= number_of_transitions
                           THEN array.e[i - 1]
                           ELSE result.e[i]]]

\* The array is allocated for the old number of transitions, not for one
\* more.
ReallocateForOldNumber(old_number_of_transitions, old_insertion_index, array, call) ==
    LET result == NewTransitionArray(
                      old_number_of_transitions,
                      SlackForArraySize(old_number_of_transitions,
                                        kMaxNumberOfTransitions))
        found == SearchInArray(array, call, old_insertion_index)
    IN  IF array.n # old_number_of_transitions
        THEN [result |-> [result EXCEPT !.n = array.n + 1],
              number_of_transitions |-> array.n,
              insertion_index |-> found.ins,
              index |-> found.index]
        ELSE [result |-> result,
              number_of_transitions |-> old_number_of_transitions,
              insertion_index |-> old_insertion_index,
              index |-> kNotFound]

\* Insert, lines 175-201: the bigger array, and the variables after the
\* reload: [result, number_of_transitions, insertion_index, index].
Reallocate(old_number_of_transitions, old_insertion_index, array, call) ==
    LET result == NewTransitionArray(
                      old_number_of_transitions + 1,
                      SlackForArraySize(old_number_of_transitions,
                                        kMaxNumberOfTransitions))
        found == SearchInArray(array, call, old_insertion_index)
    IN  IF array.n # old_number_of_transitions
        THEN [result |-> [result EXCEPT !.n = array.n + 1],
              number_of_transitions |-> array.n,
              insertion_index |-> found.ins,
              index |-> found.index]
        ELSE [result |-> result,
              number_of_transitions |-> old_number_of_transitions,
              insertion_index |-> old_insertion_index,
              index |-> kNotFound]

\* The maps a cache holds in its live slots, and the cache after a
\* collection that clears the weak slots holding the maps `dead_maps`.
CachedMaps(cache) == {cache.slot[i] : i \in LiveSlots(cache)}
ClearedSlots(cache, dead_maps) ==
    [cache EXCEPT !.slot = [i \in DOMAIN @ |->
                               IF i \in LiveSlots(cache) /\ @[i] \in dead_maps
                               THEN ClearedValue ELSE @[i]]]

\* The Puts whose stored target is among the maps `dead_maps` are marked
\* as cleared.
PutsCleared(dead_maps) ==
    [p \in Prototypes |->
        IF puts[p].target \in dead_maps /\ puts[p].stored
        THEN [puts[p] EXCEPT !.cleared = TRUE]
        ELSE puts[p]]

\* Insert, lines 175-218: the array is full; the allocation of the bigger
\* one is a safepoint at which the collector drops the entries `dead` and
\* clears the slots of the prototype transitions to the maps `dead_maps`.
InsertGrowCollecting(call, dead, dead_maps) ==
    /\ ~fatal
    /\ UNCHANGED <<threads, mode, pages, out, walk>>
    /\ raw.enc = "kFullTransitionArray"
    /\ LET old == Transitions
           found == SearchInArray(old, call, kNotFound)
       IN  /\ found.index = kNotFound
           /\ old.n + 1 <= kMaxNumberOfTransitions
           /\ old.n + 1 > old.cap
           /\ dead \subseteq 0..(old.n - 1)
           /\ dead_maps \subseteq CachedMaps(old.proto)
           /\ LET array == [CompactTransitionArray(old, dead) EXCEPT
                               !.proto = ClearedSlots(@, dead_maps)]
                   r == Reallocate(old.n, found.ins, array, call)
               IN  /\ r.index = kNotFound
                   /\ ReplaceWithArray(CopyAndSet(r.result, array,
                                                  r.number_of_transitions,
                                                  r.insertion_index, call))
                   /\ Record(call, IF dead = {} THEN "grow" ELSE "grow-shrunk",
                             dead # {})
    /\ puts' = PutsCleared(dead_maps)
    /\ UNCHANGED fatal

InsertGrowDropping(call, dead) == InsertGrowCollecting(call, dead, {})

InsertGrow(call) ==
    \E dead \in SUBSET (0..(Transitions.n - 1)),
       dead_maps \in SUBSET CachedMaps(Transitions.proto) :
        InsertGrowCollecting(call, dead, dead_maps)

Insert(call) ==
    \/ InsertUninitialized(call)
    \/ InsertSimpleOverwrite(call)
    \/ InsertSimpleCleared(call)
    \/ InsertSimpleToFull(call)
    \/ InsertSimpleDuplicate(call)
    \/ InsertOverwrite(call)
    \/ InsertTooMany(call)
    \/ InsertInPlace(call)
    \/ InsertGrow(call)

\* SetMigrationTarget, lines 458-466.
SetMigrationTargetAnyEncoding(migration_target) ==
    /\ ~fatal
    /\ UNCHANGED <<threads, queries>>
    /\ raw' = MigrationTarget(migration_target)
    /\ last' = [op |-> "SetMigrationTarget", path |-> "set"]
    /\ UNCHANGED <<heap, fatal, hist, collected>>

SetMigrationTarget(migration_target) ==
    /\ ~fatal
    /\ UNCHANGED <<threads, queries>>
    /\ IF raw.enc # "kUninitialized"
       THEN UNCHANGED <<raw, last>>
       ELSE /\ raw' = MigrationTarget(migration_target)
            /\ last' = [op |-> "SetMigrationTarget", path |-> "set"]
    /\ UNCHANGED <<heap, fatal, hist, collected>>

\* EnsureHasFullTransitionArray, lines 494-513, as SetPrototypeTransitions
\* calls it; `cleared`: the allocation clears the simple transition.  With
\* a full array already there it returns at once, line 495.
EnsureHasFullTransitionArray(cleared) ==
    /\ ~fatal
    /\ UNCHANGED <<threads, queries>>
    /\ raw.enc # "kFullTransitionArray"
    /\ cleared => raw.enc = "kWeakRef"
    /\ LET nof == IF raw.enc \in {"kUninitialized", "kMigrationTarget"} THEN 0 ELSE 1
           result == NewTransitionArray(nof, 0)
       IN  ReplaceWithArray(
               IF nof = 0 THEN result
               ELSE IF cleared THEN [result EXCEPT !.n = 0]
               ELSE SetEntry(result, 0, GetSimpleTransitionKey(GetSimpleTransition(raw)),
                             GetSimpleTransition(raw)))
    /\ last' = [op |-> "EnsureHasFullTransitionArray",
                path |-> IF cleared THEN "cleared" ELSE "none"]
    /\ collected' = (collected \/ cleared)
    /\ hist' = IF collected \/ cleared THEN NoHistory ELSE hist
    /\ UNCHANGED fatal

\* A collection between two operations: the simple transition is cleared,
\* or entries of the full array are dropped.
Collect ==
    /\ ~fatal
    /\ UNCHANGED <<threads, queries>>
    /\ \/ /\ raw.enc = "kWeakRef"
          /\ raw' = Uninitialized
          /\ UNCHANGED heap
       \/ /\ raw.enc = "kFullTransitionArray"
          /\ \E dead \in (SUBSET (0..(Transitions.n - 1))) \ {{}} :
                heap' = [heap EXCEPT ![raw.arr] = CompactTransitionArray(@, dead)]
          /\ UNCHANGED raw
    /\ last' = [op |-> "Collect", path |-> "none"]
    /\ collected' = TRUE
    /\ hist' = NoHistory
    /\ UNCHANGED fatal

Next ==
    \/ \E call \in InsertCalls : Insert(call)
    \/ \E m \in MigrationTargets : SetMigrationTarget(m)
    \/ \E cleared \in BOOLEAN : EnsureHasFullTransitionArray(cleared)
    \/ Collect

Spec == Init /\ [][Next]_vars

\* ------------------------------------------------------------- lookups
\* IsMatchingMap(target, name, kind, attributes), lines 311-320.
IsMatchingMap(target, name, kind, attributes) ==
    /\ LastAdded(target).key = name
    /\ LastAdded(target).kind = kind
    /\ LastAdded(target).attributes = attributes

\* SearchTransition(name, kind, attributes), lines 220-240, on the storage
\* (r, h).
SearchTransitionIn(r, h, name, kind, attributes) ==
    CASE r.enc = "kWeakRef" ->
            IF IsMatchingMap(r.target, name, kind, attributes) THEN r.target
            ELSE NoMap
      [] r.enc = "kFullTransitionArray" ->
            SearchAndGetTarget(h[r.arr], kind, name, attributes)
      [] OTHER -> NoMap

\* SearchSpecial(name), lines 242-247.
SearchSpecialOf(r, h, name) ==
    IF r.enc # "kFullTransitionArray" THEN NoMap
    ELSE LET transition == SearchSpecialIn(h[r.arr], name, kNotFound).index
         IN  IF transition = kNotFound THEN NoMap ELSE h[r.arr].e[transition].target

\* The lookup of a (name, kind, attributes) tuple: SearchSpecial for a
\* special symbol, SearchTransition for a property name.
LookupIn(r, h, tuple) ==
    IF IsSpecialTransition(tuple[1]) THEN SearchSpecialOf(r, h, tuple[1])
    ELSE SearchTransitionIn(r, h, tuple[1], tuple[2], tuple[3])
Lookup(tuple) == LookupIn(raw, heap, tuple)

\* The entries 0..n-1 of the full array, as (tuple, target) pairs.
EntryTuple(slot) == TupleOf(slot.key, slot.target)
NoDuplicateTuples(array) ==
    \A i, j \in 0..(array.n - 1) :
        i # j => EntryTuple(array.e[i]) # EntryTuple(array.e[j])

\* An Insert step that completes with no collection during it.
InsertNoCollection(call) ==
    \/ InsertUninitialized(call)
    \/ InsertSimpleOverwrite(call)
    \/ InsertSimpleToFull(call)
    \/ (InsertSimpleDuplicate(call) /\ ~fatal')
    \/ InsertOverwrite(call)
    \/ InsertInPlace(call)
    \/ InsertGrowDropping(call, {})

\* ---------------------------------------------------------------- C1
\* The encoding after an Insert with no collection is the one of the
\* decision table.
DecisionTable(call) ==
    LET after == TransitionsOf(raw', heap')
    IN  CASE raw.enc \in {"kUninitialized", "kMigrationTarget"} ->
                IF call.flag = "SIMPLE_PROPERTY_TRANSITION"
                THEN raw' = WeakRef(call.target)
                ELSE /\ raw'.enc = "kFullTransitionArray"
                     /\ after.n = 1
                     /\ LookupIn(raw', heap', TupleOf(call.name, call.target))
                          = call.target
          [] raw.enc = "kWeakRef" ->
                IF /\ call.flag = "SIMPLE_PROPERTY_TRANSITION"
                   /\ TupleOf(call.name, call.target)
                        = TupleOf(LastAdded(raw.target).key, raw.target)
                THEN raw' = WeakRef(call.target)
                ELSE /\ raw'.enc = "kFullTransitionArray"
                     /\ after.n = 2
                     /\ call.name # LastAdded(raw.target).key =>
                          /\ LookupIn(raw', heap', TupleOf(call.name, call.target))
                               = call.target
                          /\ LookupIn(raw', heap',
                                      TupleOf(LastAdded(raw.target).key, raw.target))
                               = raw.target
          [] OTHER -> raw'.enc = "kFullTransitionArray"

\* C1: for every sequence of Inserts from Uninitialized, with no
\* collection, the encoding after each Insert is the one the decision
\* table gives; Insert(x) then Insert(y) with distinct names gives a full
\* array of count 2 in which both are searchable.
C1_DecisionTable ==
    [][\A call \in InsertCalls : InsertNoCollection(call) => DecisionTable(call)]_vars

C1_Witness ==
    /\ last = [op |-> "Insert", path |-> "simple-to-full"]
    /\ Transitions.n = 2
    /\ Transitions.e[0].key # Transitions.e[1].key
    /\ \A i \in 0..1 : Lookup(EntryTuple(Transitions.e[i])) = Transitions.e[i].target

\* ---------------------------------------------------------------- C2
\* C2: in every state with a full array, the entries 0..count-1 are
\* strictly ordered by the composite comparator and no two of them have
\* the same (name, kind, attributes).
C2_SortedNoDuplicates ==
    raw.enc = "kFullTransitionArray" =>
        /\ IsSortedNoDuplicates(Transitions)
        /\ NoDuplicateTuples(Transitions)

\* ---------------------------------------------------------------- C3
\* C3: with no collection, the lookup of every tuple returns the target of
\* the most recent Insert of that tuple, and none when there was none.
C3_SearchFindsLastInsert ==
    (~collected /\ ~fatal) => \A t \in Tuples : Lookup(t) = hist[t]

\* ---------------------------------------------------------------- C4
\* An Insert step that completes.
InsertCompletes(call) ==
    \/ InsertNoCollection(call)
    \/ InsertSimpleCleared(call)
    \/ InsertGrow(call)

\* The call repeats the most recent Insert of its tuple, with the same
\* target, and no collection happened since.
RepeatsLastInsert(call) ==
    /\ ~collected
    /\ hist[TupleOf(call.name, call.target)] = call.target

\* C4: inserting the identical (name, kind, attributes, target) edge a
\* second time leaves the storage unchanged, in the simple encoding with
\* the simple flag and in the full encoding.
C4_SecondInsertChangesNothing ==
    [][\A call \in InsertCalls :
         (/\ RepeatsLastInsert(call)
          /\ \/ raw.enc = "kFullTransitionArray"
             \/ raw.enc = "kWeakRef" /\ call.flag = "SIMPLE_PROPERTY_TRANSITION"
          /\ InsertCompletes(call))
         => (raw' = raw /\ heap' = heap)]_vars

\* ---------------------------------------------------------------- C5
\* The call inserts a tuple that the full array does not hold while the
\* array is full.
NewTupleIntoFullArray(call) ==
    /\ raw.enc = "kFullTransitionArray"
    /\ Transitions.n = Transitions.cap
    /\ SearchInArray(Transitions, call, kNotFound).index = kNotFound

StorageFromUninitialized(call) ==
    IF call.flag = "SIMPLE_PROPERTY_TRANSITION"
    THEN [raw |-> WeakRef(call.target), array |-> NoArray]
    ELSE [raw |-> FullTransitionArray(NewAddress),
          array |-> SetEntry(NewTransitionArray(1, 0), 0, call.name, call.target)]

\* C7 as stated: when the allocation clears the old simple target, the
\* storage after Insert is the one Insert gives on an Uninitialized shape.
C7_RestartsAsUninitialized ==
    [][\A call \in InsertCalls :
         InsertSimpleCleared(call)
         => /\ raw' = StorageFromUninitialized(call).raw
            /\ TransitionsOf(raw', heap') = StorageFromUninitialized(call).array]_vars

\* C7, amended: when the allocation clears the old simple target, Insert
\* publishes, for every flag, the array it allocated for two entries: a
\* full array of count 1 and capacity 2 whose only entry is the new edge.
C7_ClearedGivesOneEntryArray ==
    [][\A call \in InsertCalls :
         InsertSimpleCleared(call)
         => /\ raw'.enc = "kFullTransitionArray"
            /\ TransitionsOf(raw', heap').n = 1
            /\ TransitionsOf(raw', heap').cap = 2
            /\ TransitionsOf(raw', heap').e[0]
                 = [key |-> call.name, target |-> call.target]
            /\ \A t \in Tuples :
                 LookupIn(raw', heap', t)
                   = IF t = TupleOf(call.name, call.target) THEN call.target
                     ELSE NoMap]_vars

C7_Witness ==
    /\ last = [op |-> "Insert", path |-> "simple-cleared"]
    /\ Transitions.n = 1
    /\ Transitions.cap = 2

\* ---------------------------------------------------------------- C8
\* `after` holds the entries of `before`, in their order, and the edge of
\* `call` at one more index.
HoldsSurvivorsAndNewEdge(after, before, call) ==
    /\ after.n = before.n + 1
    /\ \E k \in 0..before.n :
         /\ after.e[k] = [key |-> call.name, target |-> call.target]
         /\ \A i \in 0..(before.n - 1) :
              after.e[IF i < k THEN i ELSE i + 1] = before.e[i]

MaxWriterOps == 4

\* The calls of the writer.
WriterCalls ==
    {[name |-> LastAdded(t).key, target |-> t, flag |-> "SIMPLE_PROPERTY_TRANSITION"] :
        t \in {1, 2, 3, 5}}
    \cup {[name |-> s, target |-> 7, flag |-> "SPECIAL_TRANSITION"] :
            s \in InsertedSymbols}

\* The addresses of TransitionArrays: the published one, the one under
\* construction, and a replaced one a reader still holds.
Addresses == 0..2
FreshAddress(h) ==
    CHOOSE a \in Addresses \ DOMAIN h :
        \A b \in Addresses \ DOMAIN h : a <= b

\* The callback is invoked for the first entry only.
ForEachFromFirstOnly(array, key, transition) ==
    <<array.e[transition].target>>

\* What a lookup of the reader returns on the storage (r, h), as the
\* sequence of targets handed out.
ForEachFrom(array, key, transition) ==
    LET matching == {i \in transition..(array.n - 1) :
                        \A j \in transition..i : array.e[j].key = key}
    IN  [k \in 1..Cardinality(matching) |-> array.e[transition + k - 1].target]

ForEachTransitionToIn(r, h, name) ==
    CASE r.enc = "kWeakRef" ->
            IF GetSimpleTransitionKey(r.target) = name THEN <<r.target>> ELSE << >>
      [] r.enc = "kFullTransitionArray" ->
            LET transition == SearchName(h[r.arr], name, kNotFound).index
            IN  IF transition = kNotFound THEN << >>
                ELSE ForEachFrom(h[r.arr], h[r.arr].e[transition].key, transition)
      [] OTHER -> << >>

ResultOf(op, r, h, tuple) ==
    IF op = "ForEachTransitionTo" THEN ForEachTransitionToIn(r, h, tuple[1])
    ELSE LET map == SearchTransitionIn(r, h, tuple[1], tuple[2], tuple[3])
         IN  IF map = NoMap THEN << >> ELSE <<map>>

\* The reader's record once the writer has completed a change of the
\* storage to (r, h): the result valid from now on is one the lookup in
\* progress may return.
Observed(r, h) ==
    IF rd.pc = "idle" THEN rd
    ELSE [rd EXCEPT !.ok = @ \cup {ResultOf(rd.op, r, h, rd.tuple)}]

\* The arrays still referenced once the storage is `r`: the published one
\* and the one the reader holds.
Retained(r, h) ==
    [a \in DOMAIN h \cap ({r.arr} \cup (IF rd.pc = "idle" THEN {} ELSE {rd.arr})) |-> h[a]]

WriterStarts == ~fatal /\ w.pc = "idle" /\ w.ops < MaxWriterOps

\* Insert, lines 44-50 and 64-73: the simple transition is stored.
WStoreSimple(call) ==
    /\ WriterStarts
    /\ call.flag = "SIMPLE_PROPERTY_TRANSITION"
    /\ \/ raw.enc \in {"kUninitialized", "kMigrationTarget"}
       \/ raw.enc = "kWeakRef" /\ SimpleOverwrites(call)
    /\ raw' = WeakRef(call.target)
    /\ rd' = Observed(WeakRef(call.target), heap)
    /\ w' = WriterIdle(w.ops + 1)
    /\ UNCHANGED <<heap, fatal, lock, history, queries>>

\* The writer's record after the allocation of `result` on `path`.
Allocated(call, path, pc, number_of_transitions, insertion_index) ==
    [pc |-> pc, path |-> path, call |-> call, result |-> FreshAddress(heap),
     n |-> number_of_transitions, ins |-> insertion_index, i |-> 0, ops |-> w.ops,
     before |-> NoArray, cache |-> EmptyWeakFixedArray, capacity |-> -1,
     transitions |-> 0]

\* Insert, lines 51-53: NewTransitionArray(1, 0) for the first transition.
WAllocateFirst(call) ==
    /\ WriterStarts
    /\ raw.enc \in {"kUninitialized", "kMigrationTarget"}
    /\ call.flag # "SIMPLE_PROPERTY_TRANSITION"
    /\ heap' = heap @@ (FreshAddress(heap) :> NewTransitionArray(1, 0))
    /\ w' = Allocated(call, "first-full", "set-new", 0, 0)
    /\ UNCHANGED <<raw, fatal, lock, rd, history, queries>>

\* Insert, lines 75-77: NewTransitionArray(1, 1) for the promotion.
WAllocateTwo(call) ==
    /\ WriterStarts
    /\ raw.enc = "kWeakRef"
    /\ ~SimpleOverwrites(call)
    /\ heap' = heap @@ (FreshAddress(heap) :> NewTransitionArray(1, 1))
    /\ w' = Allocated(call, "simple-to-full", "set-simple", 1, kNotFound)
    /\ UNCHANGED <<raw, fatal, lock, rd, history, queries>>

\* Insert, lines 90-92: result->Set(0, key, simple_transition).
WSetSimple ==
    /\ w.pc = "set-simple"
    /\ heap' = [heap EXCEPT ![w.result] =
                   SetEntry(@, 0, GetSimpleTransitionKey(raw.target), raw.target)]
    /\ w' = [w EXCEPT !.pc = "count-two"]
    /\ UNCHANGED <<raw, fatal, lock, rd, history, queries>>

\* Insert, lines 94-107: the search, then SetNumberOfTransitions(2).
WCountTwo ==
    /\ w.pc = "count-two"
    /\ LET found == SearchInResult(heap[w.result], w.call, kNotFound)
       IN  /\ found.index = kNotFound
           /\ heap' = [heap EXCEPT ![w.result].n = 2]
           /\ w' = [w EXCEPT !.ins = found.ins,
                             !.pc = IF found.ins = 0 THEN "move-simple" ELSE "set-key"]
    /\ UNCHANGED <<raw, fatal, lock, rd, history, queries>>

\* Insert, lines 108-113: the simple transition moves to index 1.
WMoveSimple ==
    /\ w.pc = "move-simple"
    /\ heap' = [heap EXCEPT ![w.result] =
                   SetEntry(@, 1, GetSimpleTransitionKey(raw.target), raw.target)]
    /\ w' = [w EXCEPT !.pc = "set-key"]
    /\ UNCHANGED <<raw, fatal, lock, rd, history, queries>>

\* Insert, lines 114-115: SetKey and SetRawTarget at the insertion index
\* of the two-entry array.
WSetKeyTwo ==
    /\ w.pc = "set-key"
    /\ heap' = [heap EXCEPT ![w.result].e[w.ins].key = w.call.name]
    /\ w' = [w EXCEPT !.pc = "set-target"]
    /\ UNCHANGED <<raw, fatal, lock, rd, history, queries>>

WSetRawTargetTwo ==
    /\ w.pc = "set-target"
    /\ heap' = [heap EXCEPT ![w.result].e[w.ins].target = w.call.target]
    /\ w' = [w EXCEPT !.pc = "publish"]
    /\ UNCHANGED <<raw, fatal, lock, rd, history, queries>>

\* Insert, line 54: result->Set(0, name, target) of the first transition.
WSetNew ==
    /\ w.pc = "set-new"
    /\ heap' = [heap EXCEPT ![w.result] = SetEntry(@, 0, w.call.name, w.call.target)]
    /\ w' = [w EXCEPT !.pc = "publish"]
    /\ UNCHANGED <<raw, fatal, lock, rd, history, queries>>

\* ReplaceTransitions, lines 475-486: the release store of the new array.
WPublish ==
    /\ w.pc = "publish"
    /\ raw' = FullTransitionArray(w.result)
    /\ heap' = Retained(FullTransitionArray(w.result), heap)
    /\ rd' = Observed(FullTransitionArray(w.result), heap)
    /\ w' = WriterIdle(w.ops + 1)
    /\ UNCHANGED <<fatal, lock, history, queries>>

\* Insert, lines 137-147: the new edge's tuple is in the full array.
WBeginOverwrite(call) ==
    /\ WriterStarts
    /\ raw.enc = "kFullTransitionArray"
    /\ LET found == SearchInArray(Transitions, call, kNotFound)
       IN  /\ found.index # kNotFound
           /\ w' = [w EXCEPT !.pc = "lock", !.path = "overwrite", !.call = call,
                             !.n = Transitions.n, !.ins = found.index]
    /\ UNCHANGED <<raw, heap, fatal, lock, rd, history, queries>>

\* Insert, lines 154-155: CHECK_LE(new_nof, kMaxNumberOfTransitions) fails.
WTooMany(call) ==
    /\ ~fatal
    /\ w.pc = "idle"
    /\ raw.enc = "kFullTransitionArray"
    /\ SearchInArray(Transitions, call, kNotFound).index = kNotFound
    /\ Transitions.n + 1 > kMaxNumberOfTransitions
    /\ fatal' = TRUE
    /\ UNCHANGED <<raw, heap, lock, w, rd, history, queries>>

\* Insert, lines 137-160: the new edge fits into the full array.
WBeginInPlace(call) ==
    /\ WriterStarts
    /\ raw.enc = "kFullTransitionArray"
    /\ LET found == SearchInArray(Transitions, call, kNotFound)
       IN  /\ found.index = kNotFound
           /\ Transitions.n + 1 <= kMaxNumberOfTransitions
           /\ Transitions.n + 1 <= Transitions.cap
           /\ w' = [w EXCEPT !.pc = "lock", !.path = "in-place", !.call = call,
                             !.n = Transitions.n, !.ins = found.ins]
    /\ UNCHANGED <<raw, heap, fatal, lock, rd, history, queries>>

\* SharedMutexGuard<kExclusive>, lines 148-149 and 161-162: the state of
\* the mutex once the writer is past the guard, "blocked" while it waits.
ExclusiveGuardNotTaken(mutex) == mutex
ExclusiveGuard(mutex) == IF mutex = "free" THEN "exclusive" ELSE "blocked"

\* The end of the guard's scope, lines 151 and 171.
ExclusiveGuardEnds(mutex) == IF mutex = "exclusive" THEN "free" ELSE mutex

\* The reader is between the load of the storage pointer and its return.
ReaderActive == rd.pc \notin {"idle", "done"}

WLock ==
    /\ w.pc = "lock"
    /\ ExclusiveGuard(lock) # "blocked"
    /\ lock' = ExclusiveGuard(lock)
    /\ w' = [w EXCEPT !.pc = IF w.path = "overwrite" THEN "overwrite" ELSE "count",
                      !.before = Transitions]
    /\ rd' = IF ReaderActive /\ w.path = "in-place"
             THEN [rd EXCEPT !.overlap = TRUE] ELSE rd
    /\ UNCHANGED <<raw, heap, fatal, history, queries>>

\* Insert, line 150: array.SetRawTarget(index, target).
WOverwriteTarget ==
    /\ w.pc = "overwrite"
    /\ heap' = [heap EXCEPT ![raw.arr].e[w.ins].target = w.call.target]
    /\ w' = [w EXCEPT !.pc = "unlock"]
    /\ UNCHANGED <<raw, fatal, lock, rd, history, queries>>

\* Insert, line 163: array.SetNumberOfTransitions(new_nof).
WCount ==
    /\ w.pc = "count"
    /\ heap' = [heap EXCEPT ![raw.arr].n = w.n + 1]
    /\ w' = [w EXCEPT !.i = w.n,
                      !.pc = IF w.n > w.ins THEN "shift-key" ELSE "insert-key"]
    /\ UNCHANGED <<raw, fatal, lock, rd, history, queries>>

\* Insert, lines 164-167: one entry moves up, key first.
WShiftKey ==
    /\ w.pc = "shift-key"
    /\ heap' = [heap EXCEPT ![raw.arr].e[w.i].key = heap[raw.arr].e[w.i - 1].key]
    /\ w' = [w EXCEPT !.pc = "shift-target"]
    /\ UNCHANGED <<raw, fatal, lock, rd, history, queries>>

WShiftTarget ==
    /\ w.pc = "shift-target"
    /\ heap' = [heap EXCEPT ![raw.arr].e[w.i].target = heap[raw.arr].e[w.i - 1].target]
    /\ w' = [w EXCEPT !.i = w.i - 1,
                      !.pc = IF w.i - 1 > w.ins THEN "shift-key" ELSE "insert-key"]
    /\ UNCHANGED <<raw, fatal, lock, rd, history, queries>>

\* Insert, lines 168-169: the new entry.
WInsertKey ==
    /\ w.pc = "insert-key"
    /\ heap' = [heap EXCEPT ![raw.arr].e[w.ins].key = w.call.name]
    /\ w' = [w EXCEPT !.pc = "insert-target"]
    /\ UNCHANGED <<raw, fatal, lock, rd, history, queries>>

WInsertTarget ==
    /\ w.pc = "insert-target"
    /\ heap' = [heap EXCEPT ![raw.arr].e[w.ins].target = w.call.target]
    /\ w' = [w EXCEPT !.pc = "unlock"]
    /\ UNCHANGED <<raw, fatal, lock, rd, history, queries>>

\* Insert, lines 151 and 171: return, the guard's scope ends.
WUnlock ==
    /\ w.pc = "unlock"
    /\ lock' = ExclusiveGuardEnds(lock)
    /\ rd' = Observed(raw, heap)
    /\ w' = WriterIdle(w.ops + 1)
    /\ UNCHANGED <<raw, heap, fatal, history, queries>>

\* Insert, lines 175-178: the bigger array is allocated.
WAllocateGrow(call) ==
    /\ WriterStarts
    /\ raw.enc = "kFullTransitionArray"
    /\ LET found == SearchInArray(Transitions, call, kNotFound)
       IN  /\ found.index = kNotFound
           /\ Transitions.n + 1 <= kMaxNumberOfTransitions
           /\ Transitions.n + 1 > Transitions.cap
           /\ heap' = heap @@ (FreshAddress(heap) :>
                          Reallocate(Transitions.n, found.ins, Transitions, call).result)
           /\ w' = Allocated(call, "grow", "copy-prototype-transitions",
                             Transitions.n, found.ins)
    /\ UNCHANGED <<raw, fatal, lock, rd, history, queries>>

\* Insert, lines 203-205: the prototype transitions go into the result.
WCopyPrototypeTransitions ==
    /\ w.pc = "copy-prototype-transitions"
    /\ heap' = [heap EXCEPT ![w.result].proto =
                   IF Transitions.proto # EmptyWeakFixedArray
                   THEN Transitions.proto ELSE @]
    /\ w' = [w EXCEPT !.pc = "copy", !.i = 0]
    /\ UNCHANGED <<raw, fatal, lock, rd, history, queries>>

\* The copy loops end one entry early.
WCopyStopsEarly ==
    /\ w.pc = "copy"
    /\ heap' = [heap EXCEPT ![w.result] =
                   IF w.i < w.ins
                   THEN SetEntry(@, w.i, Transitions.e[w.i].key, Transitions.e[w.i].target)
                   ELSE IF w.i = w.ins
                        THEN SetEntry(@, w.i, w.call.name, w.call.target)
                        ELSE SetEntry(@, w.i, Transitions.e[w.i - 1].key,
                                      Transitions.e[w.i - 1].target)]
    /\ w' = [w EXCEPT !.i = w.i + 1,
                      !.pc = IF w.i + 1 >= w.n THEN "publish" ELSE "copy"]
    /\ UNCHANGED <<raw, fatal, lock, rd, history, queries>>

\* Insert, lines 207-214: one result->Set of the three copy loops, entry
\* w.i of the result.
WCopy ==
    /\ w.pc = "copy"
    /\ heap' = [heap EXCEPT ![w.result] =
                   IF w.i < w.ins
                   THEN SetEntry(@, w.i, Transitions.e[w.i].key, Transitions.e[w.i].target)
                   ELSE IF w.i = w.ins
                        THEN SetEntry(@, w.i, w.call.name, w.call.target)
                        ELSE SetEntry(@, w.i, Transitions.e[w.i - 1].key,
                                      Transitions.e[w.i - 1].target)]
    /\ w' = [w EXCEPT !.i = w.i + 1,
                      !.pc = IF w.i + 1 > w.n THEN "publish" ELSE "copy"]
    /\ UNCHANGED <<raw, fatal, lock, rd, history, queries>>

\* EnsureHasFullTransitionArray, lines 494-499: NewTransitionArray(nof).
WEnsureAllocate ==
    /\ WriterStarts
    /\ raw.enc # "kFullTransitionArray"
    /\ LET nof == IF raw.enc \in {"kUninitialized", "kMigrationTarget"} THEN 0 ELSE 1
       IN  /\ heap' = heap @@ (FreshAddress(heap) :> NewTransitionArray(nof, 0))
           /\ w' = [Allocated(WriterIdle(0).call, "ensure-full",
                              IF nof = 1 THEN "ensure-set" ELSE "publish", nof, 0)
                    EXCEPT !.ops = w.ops]
    /\ UNCHANGED <<raw, fatal, lock, rd, history, queries>>

\* EnsureHasFullTransitionArray, lines 505-509: the simple transition
\* goes into the new array.
WEnsureSet ==
    /\ w.pc = "ensure-set"
    /\ heap' = [heap EXCEPT ![w.result] =
                   SetEntry(@, 0, GetSimpleTransitionKey(GetSimpleTransition(raw)),
                            GetSimpleTransition(raw))]
    /\ w' = [w EXCEPT !.pc = "publish"]
    /\ UNCHANGED <<raw, fatal, lock, rd, history, queries>>

\* ------------------------------------------------- the reader, stepwise
\* The lookups of the background thread, with concurrent access declared.
ReaderLookups ==
    {[op |-> "SearchTransition", tuple |-> <<"x", kData, NONE>>],
     [op |-> "SearchTransition", tuple |-> <<"y", kData, NONE>>],
     [op |-> "ForEachTransitionTo", tuple |-> <<"x", kData, NONE>>]}

\* The storage as it was at the last completed change: the published
\* array as the writer found it while the writer is inside a guard.
StableHeap == IF w.pc \in {"overwrite", "count", "shift-key", "shift-target",
                           "insert-key", "insert-target", "unlock"}
              THEN [heap EXCEPT ![raw.arr] = w.before]
              ELSE heap

\* SearchTransition and ForEachTransitionTo, lines 223-232 and 278-292:
\* the accessor has loaded the storage pointer; the encodings without an
\* array answer at once.
RLoad(lookup) ==
    /\ rd.pc = "idle"
    /\ rd' = [ReaderIdle EXCEPT
                 !.op = lookup.op, !.tuple = lookup.tuple,
                 !.arr = raw.arr,
                 !.ok = {ResultOf(lookup.op, raw, StableHeap, lookup.tuple)},
                 !.result = IF raw.enc = "kFullTransitionArray" THEN << >>
                            ELSE ResultOf(lookup.op, raw, heap, lookup.tuple),
                 !.overlap = (raw.enc = "kFullTransitionArray"
                              /\ w.path = "in-place" /\ lock = "exclusive"),
                 !.pc = IF raw.enc = "kFullTransitionArray" THEN "lock" ELSE "done"]
    /\ UNCHANGED <<raw, heap, fatal, lock, w, history, queries>>

\* SharedMutexGuardIf<kShared>(mutex, concurrent_access_), lines 234-235
\* and 294-295: the state of the mutex once the reader is past the guard.
SharedGuardIf(mutex, concurrent_access) ==
    IF ~concurrent_access THEN mutex
    ELSE IF mutex = "exclusive" THEN "blocked" ELSE "shared"

SharedGuardEnds(mutex) == IF mutex = "shared" THEN "free" ELSE mutex

RLock ==
    /\ rd.pc = "lock"
    /\ SharedGuardIf(lock, TRUE) # "blocked"
    /\ lock' = SharedGuardIf(lock, TRUE)
    /\ rd' = [rd EXCEPT !.pc = "length"]
    /\ UNCHANGED <<raw, heap, fatal, w, history, queries>>

\* SearchName: the number of entries of the linear search.
RLength ==
    /\ rd.pc = "length"
    /\ rd' = [rd EXCEPT !.len = heap[rd.arr].n, !.i = 0, !.pc = "name"]
    /\ UNCHANGED <<raw, heap, fatal, lock, w, history, queries>>

\* SearchName: one iteration of the linear search.
RName ==
    /\ rd.pc = "name"
    /\ LET name == rd.tuple[1]
           key == heap[rd.arr].e[rd.i].key
       IN  rd' = IF rd.i >= rd.len THEN [rd EXCEPT !.pc = "unlock"]
                 ELSE IF Hash(key) > Hash(name) THEN [rd EXCEPT !.pc = "unlock"]
                 ELSE IF key = name THEN [rd EXCEPT !.pc = "details-length"]
                 ELSE [rd EXCEPT !.i = rd.i + 1]
    /\ UNCHANGED <<raw, heap, fatal, lock, w, history, queries>>

\* SearchDetailsAndGetTarget, line 626, and ForEachTransitionTo, line 668:
\* number_of_transitions().
RDetailsLength ==
    /\ rd.pc = "details-length"
    /\ rd' = [rd EXCEPT !.len = heap[rd.arr].n, !.pc = "key"]
    /\ UNCHANGED <<raw, heap, fatal, lock, w, history, queries>>

\* Lines 629 and 671: transition < nof_transitions && GetKey(transition) == key.
RKey ==
    /\ rd.pc = "key"
    /\ rd' = IF rd.i < rd.len /\ heap[rd.arr].e[rd.i].key = rd.tuple[1]
             THEN [rd EXCEPT !.pc = "target"]
             ELSE [rd EXCEPT !.pc = "unlock"]
    /\ UNCHANGED <<raw, heap, fatal, lock, w, history, queries>>

\* Lines 631-641 and 673-674: GetTarget(transition) and what is done with it.
RTarget ==
    /\ rd.pc = "target"
    /\ LET target == heap[rd.arr].e[rd.i].target
           target_details == GetTargetDetails(rd.tuple[1], target)
           cmp == CompareDetails(rd.tuple[2], rd.tuple[3], target_details.kind,
                                 target_details.attributes)
       IN  rd' = IF rd.op = "ForEachTransitionTo"
                 THEN [rd EXCEPT !.result = Append(@, target), !.i = rd.i + 1,
                                 !.pc = "key"]
                 ELSE IF cmp = 0
                      THEN [rd EXCEPT !.result = <<target>>, !.pc = "unlock"]
                      ELSE IF cmp < 0 THEN [rd EXCEPT !.pc = "unlock"]
                      ELSE [rd EXCEPT !.i = rd.i + 1, !.pc = "key"]
    /\ UNCHANGED <<raw, heap, fatal, lock, w, history, queries>>

\* Lines 236-237 and 296-297: return, the guard's scope ends.
RUnlock ==
    /\ rd.pc = "unlock"
    /\ lock' = SharedGuardEnds(lock)
    /\ rd' = [rd EXCEPT !.pc = "done"]
    /\ UNCHANGED <<raw, heap, fatal, w, history, queries>>

\* The caller has the result; the array it read is garbage unless it is
\* still the published one.
RReturn ==
    /\ rd.pc = "done"
    /\ rd' = ReaderIdle
    /\ heap' = [a \in DOMAIN heap \cap ({raw.arr} \cup
                    (IF w.result # -1 THEN {w.result} ELSE {})) |-> heap[a]]
    /\ UNCHANGED <<raw, fatal, lock, w, history, queries>>

NextStepwise ==
    \/ \E call \in WriterCalls :
          \/ WStoreSimple(call)
          \/ WAllocateFirst(call)
          \/ WAllocateTwo(call)
          \/ WBeginOverwrite(call)
          \/ WTooMany(call)
          \/ WBeginInPlace(call)
          \/ WAllocateGrow(call)
    \/ WSetNew \/ WSetSimple \/ WCountTwo \/ WMoveSimple
    \/ WSetKeyTwo \/ WSetRawTargetTwo \/ WPublish
    \/ WLock \/ WOverwriteTarget \/ WCount \/ WShiftKey \/ WShiftTarget
    \/ WInsertKey \/ WInsertTarget \/ WUnlock
    \/ WCopyPrototypeTransitions \/ WCopy
    \/ WEnsureAllocate \/ WEnsureSet
    \/ \E lookup \in ReaderLookups : RLoad(lookup)
    \/ RLock \/ RLength \/ RName \/ RDetailsLength \/ RKey \/ RTarget
    \/ RUnlock \/ RReturn

SpecStepwise == Init /\ [][NextStepwise]_vars

\* ---------------------------------------------------------------- C9
\* C9: a SearchTransition or ForEachTransitionTo of a reader with
\* concurrent access declared, interleaved in any way with the writer's
\* Inserts, returns a result that was valid at a completed state of the
\* storage between the reader's load of the pointer and its return: the
\* result before an in-place Insert or the one after it, never one read
\* from a half-shifted table.
C9_NeverHalfShifted == rd.pc = "done" => rd.result \in rd.ok

\* A reader that was in its lookup while the writer shifted entries in
\* place has returned the target the Insert added.
C9_Witness ==
    /\ rd.pc = "done"
    /\ rd.overlap
    /\ Cardinality(rd.ok) >= 2
    /\ rd.result # << >>
    /\ rd.result \in rd.ok

\* ---------------------------------------------------------------- C10
ReplacingPaths == {"first-full", "simple-to-full", "grow", "ensure-full"}

\* Count and entries are written: the entries below the count hold a key
\* and a target, the slack above it is untouched.
FullyFormed(array) ==
    /\ array.n <= array.cap
    /\ \A i \in 0..(array.cap - 1) :
          IF i < array.n
          THEN array.e[i].key # NoKey /\ array.e[i].target # NoMap
          ELSE array.e[i] = EmptySlot

\* The arrays a pointer load can have returned: the published one and the
\* one the reader holds.
Loadable == (IF raw.enc = "kFullTransitionArray" THEN {raw.arr} ELSE {})
            \cup (IF ReaderActive /\ rd.arr # -1 THEN {rd.arr} ELSE {})

PutCalls ==
    {[name |-> PrototypeOf(t), target |-> t, flag |-> "put"] :
        t \in PrototypeTargets}

\* GetPrototypeTransition(prototype), lines 408-426, on the storage
\* (r, h): the first live entry whose map has the prototype.
GetPrototypeTransitionIn(r, h, prototype) ==
    LET cache == GetPrototypeTransitions(r, h)
        matching == {i \in LiveSlots(cache) :
                        PrototypeOf(cache.slot[i]) = prototype}
    IN  IF matching = {} THEN NoMap
        ELSE cache.slot[CHOOSE i \in matching : \A j \in matching : i <= j]

\* The new array is left empty, whatever the storage held.
EnsuredArrayWithoutSimpleTransition(r, h) ==
    IF r.enc = "kFullTransitionArray" THEN h[r.arr]
    ELSE IF r.enc = "kWeakRef"
         THEN [NewTransitionArray(1, 0) EXCEPT !.n = 0]
         ELSE NewTransitionArray(0, 0)

\* The array EnsureHasFullTransitionArray, lines 494-513, leaves in the
\* storage (r, h).
EnsuredArray(r, h) ==
    IF r.enc = "kFullTransitionArray" THEN h[r.arr]
    ELSE IF r.enc = "kWeakRef"
         THEN SetEntry(NewTransitionArray(1, 0), 0,
                       GetSimpleTransitionKey(GetSimpleTransition(r)),
                       GetSimpleTransition(r))
         ELSE NewTransitionArray(0, 0)

\* The cache is full, compacting it frees nothing and it has its
\* greatest capacity.
NoRoomAtGreatestCapacity(cache) ==
    /\ cache.n + 1 > cache.cap
    /\ ~CompactPrototypeTransitionArray(cache).compacted
    /\ cache.cap = kMaxCachedPrototypeTransitions

\* The cache grows whenever compacting it frees nothing.
PutPathGrowingAtGreatestCapacity(cache) ==
    IF cache.n + 1 <= cache.cap THEN "appended"
    ELSE IF CompactPrototypeTransitionArray(cache).compacted THEN "compacted"
    ELSE "grown"

\* PutPrototypeTransition, lines 389-392: the way the Put takes.
PutPath(cache) ==
    LET capacity == cache.cap
        transitions == cache.n + 1
    IN  IF transitions <= capacity THEN "appended"
        ELSE IF CompactPrototypeTransitionArray(cache).compacted THEN "compacted"
        ELSE IF capacity = kMaxCachedPrototypeTransitions THEN "skipped"
        ELSE "grown"

\* PutPrototypeTransition, lines 382-405, on the storage (r, h):
\* [path, raw, heap].
PutInto(r, h, target_map) ==
    LET cache == GetPrototypeTransitions(r, h)
        transitions == cache.n + 1
        done == CompactPrototypeTransitionArray(cache)
        path == PutPath(cache)
        current == CASE path = "appended" -> cache
                     [] path = "compacted" -> done.array
                     [] path = "grown" ->
                            GrowPrototypeTransitionArray(cache, 2 * transitions)
                     [] OTHER -> cache
        last_number == current.n
        stored == [current EXCEPT !.slot[last_number] = target_map,
                                  !.n = last_number + 1]
    IN  IF path = "skipped"
        THEN [path |-> path, raw |-> r, heap |-> h]
        ELSE IF path = "grown"
        THEN [path |-> path, raw |-> FullTransitionArray(NewAddress),
              heap |-> NewAddress :> [EnsuredArray(r, h) EXCEPT !.proto = stored]]
        ELSE [path |-> path, raw |-> r,
              heap |-> [h EXCEPT ![r.arr].proto = stored]]

\* PutPrototypeTransition(prototype, target_map), lines 372-406.
PutPrototypeTransition(call) ==
    /\ ~fatal
    /\ LET returns == mode.is_prototype_map \/ mode.is_dictionary_map
                        \/ ~mode.cache_prototype_transitions
           put == PutInto(raw, heap, call.target)
       IN  /\ IF returns THEN UNCHANGED <<raw, heap>>
              ELSE raw' = put.raw /\ heap' = put.heap
           /\ last' = [op |-> "PutPrototypeTransition",
                       path |-> IF returns THEN "returned" ELSE put.path]
           /\ puts' = [puts EXCEPT ![call.name] =
                         [target |-> call.target,
                          stored |-> ~returns /\ put.path # "skipped",
                          cleared |-> FALSE]]
    /\ UNCHANGED <<fatal, hist, collected, threads, mode, pages, out, walk>>

\* GetPrototypeTransition(prototype), lines 408-426.
GetPrototypeTransition(prototype) ==
    /\ ~fatal
    /\ out' = [op |-> "GetPrototypeTransition", prototype |-> prototype,
               result |-> GetPrototypeTransitionIn(raw, heap, prototype),
               put |-> puts[prototype]]
    /\ UNCHANGED <<raw, heap, fatal, history, threads, mode, pages, walk, puts>>

\* A collection finds the maps `dead` of the cache unreachable and clears
\* the weak slots that hold them.
ClearPrototypeTransitions ==
    /\ ~fatal
    /\ raw.enc = "kFullTransitionArray"
    /\ LET cache == Transitions.proto
           cached == {cache.slot[i] : i \in LiveSlots(cache)}
       IN  \E dead \in (SUBSET cached) \ {{}} :
              /\ heap' = [heap EXCEPT ![raw.arr].proto.slot =
                             [i \in DOMAIN @ |->
                                IF i \in LiveSlots(cache) /\ @[i] \in dead
                                THEN ClearedValue ELSE @[i]]]
              /\ puts' = [p \in Prototypes |->
                             IF puts[p].target \in dead /\ puts[p].stored
                             THEN [puts[p] EXCEPT !.cleared = TRUE]
                             ELSE puts[p]]
    /\ last' = [op |-> "Collect", path |-> "prototype-transitions"]
    /\ UNCHANGED <<raw, fatal, hist, collected, threads, mode, pages, out, walk>>

\* The modes of the map: fast, in dictionary mode, with the caching of
\* prototype transitions disabled, and a prototype map, whose storage
\* holds its prototype info.
PrototypeInfo == [enc |-> "kPrototypeInfo", target |-> NoMap, arr |-> -1]
Modes ==
    {<<FastMode, Uninitialized>>,
     <<[FastMode EXCEPT !.is_dictionary_map = TRUE], Uninitialized>>,
     <<[FastMode EXCEPT !.cache_prototype_transitions = FALSE], Uninitialized>>,
     <<[FastMode EXCEPT !.is_prototype_map = TRUE], PrototypeInfo>>}

InitProto ==
    /\ \E m \in Modes : mode = m[1] /\ raw = m[2]
    /\ heap = << >>
    /\ fatal = FALSE
    /\ last = [op |-> "Init", path |-> "none"]
    /\ hist = [t \in Tuples |-> NoMap]
    /\ collected = FALSE
    /\ lock = "free"
    /\ w = WriterIdle(0)
    /\ rd = ReaderIdle
    /\ out = NoResult
    /\ walk = NoWalk
    /\ puts = NoPuts
    /\ pages = BoundedPageAllocator

NextProto ==
    \/ \E call \in PutCalls : PutPrototypeTransition(call)
    \/ \E prototype \in Prototypes : GetPrototypeTransition(prototype)
    \/ ClearPrototypeTransitions

SpecProto == InitProto /\ [][NextProto]_vars

\* Every operation that changes the storage, on maps of every mode; one
\* prototype transition is cached, time and again.
ModesPutCalls == {call \in PutCalls : call.target = 9}

\* Four Inserts of distinct tuples with flags other than
\* PROPERTY_TRANSITION: the array never holds more than four entries and
\* never the new tuple twice, so that Insert takes no other path than
\* these.
ModesInsertCalls ==
    {[name |-> "x", target |-> 1, flag |-> "SIMPLE_PROPERTY_TRANSITION"],
     [name |-> "x", target |-> 3, flag |-> "SIMPLE_PROPERTY_TRANSITION"],
     [name |-> "y", target |-> 5, flag |-> "SIMPLE_PROPERTY_TRANSITION"],
     [name |-> "frozen", target |-> 7, flag |-> "SPECIAL_TRANSITION"]}

\* The stored word is taken for the migration target in any encoding.
GetMigrationTargetAnyEncoding(r) == r.target

\* GetMigrationTarget(), lines 468-473, on the storage word r.
GetMigrationTargetIn(r) ==
    IF r.enc = "kMigrationTarget" THEN r.target ELSE NoMap

GetMigrationTarget ==
    /\ ~fatal
    /\ out' = [op |-> "GetMigrationTarget", result |-> GetMigrationTargetIn(raw)]
    /\ UNCHANGED <<raw, heap, fatal, history, threads, mode, pages, walk, puts>>

\* ForEachTransitionTo(name, callback), lines 274-300: the targets handed
\* to the callback, in the order of the calls.
ForEachTransitionTo(name) ==
    /\ ~fatal
    /\ out' = [op |-> "ForEachTransitionTo", name |-> name,
               result |-> ForEachTransitionToIn(raw, heap, name)]
    /\ UNCHANGED <<raw, heap, fatal, history, threads, mode, pages, walk, puts>>

NextModes ==
    \/ \E call \in ModesInsertCalls :
          \/ InsertUninitialized(call)
          \/ InsertSimpleOverwrite(call)
          \/ InsertSimpleCleared(call)
          \/ InsertSimpleToFull(call)
          \/ InsertOverwrite(call)
          \/ InsertInPlace(call)
          \/ InsertGrow(call)
    \/ \E m \in MigrationTargets : SetMigrationTarget(m)
    \/ \E call \in ModesPutCalls : PutPrototypeTransition(call)
    \/ Collect
    \/ \E name \in Keys : ForEachTransitionTo(name)
    \/ GetMigrationTarget

SpecModes == InitProto /\ [][NextModes]_vars

\* ------------------------------------- PutPrototypeTransition, stepwise
\* The writer alone, one step at a time through Insert and
\* PutPrototypeTransition, with the steps that allocate told apart.

\* The cache the writer holds is the one the transition array refers to:
\* every cache but the empty_weak_fixed_array was read from the array.
WritesThrough(h, cache) ==
    IF raw.enc = "kFullTransitionArray" /\ w.cache # EmptyWeakFixedArray
    THEN [h EXCEPT ![raw.arr].proto = cache]
    ELSE h

\* PutPrototypeTransition, lines 377-384: the early returns, then the
\* cache, its capacity and the number of transitions wanted.
PBegin(call) ==
    /\ WriterStarts
    /\ IF mode.is_prototype_map \/ mode.is_dictionary_map
          \/ ~mode.cache_prototype_transitions
       THEN w' = WriterIdle(w.ops + 1)
       ELSE LET cache == GetPrototypeTransitions(raw, heap)
            IN  w' = [w EXCEPT !.pc = "put-lock", !.path = "put", !.call = call,
                               !.cache = cache, !.capacity = cache.cap,
                               !.transitions = cache.n + 1]
    /\ UNCHANGED <<raw, heap, fatal, lock, rd, history, queries>>

\* PutPrototypeTransition, lines 386-389: the exclusive guard.
PLock ==
    /\ w.pc = "put-lock"
    /\ ExclusiveGuard(lock) # "blocked"
    /\ lock' = ExclusiveGuard(lock)
    /\ w' = [w EXCEPT !.pc = IF w.transitions > w.capacity
                             THEN "put-compact" ELSE "put-set"]
    /\ UNCHANGED <<raw, heap, fatal, rd, history, queries>>

\* PutPrototypeTransition, lines 391-392: the compaction of the cache in
\* place, and the return when the cache has its greatest capacity.
PCompact ==
    /\ w.pc = "put-compact"
    /\ LET done == CompactPrototypeTransitionArray(w.cache)
       IN  /\ heap' = WritesThrough(heap, done.array)
           /\ w' = [w EXCEPT
                      !.cache = done.array,
                      !.path = IF ~done.compacted
                                  /\ w.capacity = kMaxCachedPrototypeTransitions
                               THEN "put-skipped" ELSE @,
                      !.pc = IF done.compacted THEN "put-set"
                             ELSE IF w.capacity = kMaxCachedPrototypeTransitions
                                  THEN "put-unlock"
                                  ELSE "put-grow"]
    /\ UNCHANGED <<raw, fatal, lock, rd, history, queries>>

\* PutPrototypeTransition, lines 393-395: GrowPrototypeTransitionArray
\* allocates the bigger cache.
PGrow ==
    /\ w.pc = "put-grow"
    /\ w' = [w EXCEPT !.cache = GrowPrototypeTransitionArray(@, 2 * w.transitions),
                      !.pc = "put-ensure"]
    /\ UNCHANGED <<raw, heap, fatal, lock, rd, history, queries>>

\* SetPrototypeTransitions, line 489: EnsureHasFullTransitionArray, lines
\* 494-513, allocates a transition array unless there is one, fills it
\* and stores it.
PEnsureHasFullTransitionArray ==
    /\ w.pc = "put-ensure"
    /\ IF raw.enc = "kFullTransitionArray"
       THEN UNCHANGED <<raw, heap>>
       ELSE LET nof == IF raw.enc \in {"kUninitialized", "kMigrationTarget"}
                       THEN 0 ELSE 1
                result == NewTransitionArray(nof, 0)
                address == FreshAddress(heap)
            IN  /\ raw' = FullTransitionArray(address)
                /\ heap' = Retained(
                       FullTransitionArray(address),
                       heap @@ (address :>
                          IF nof = 0 THEN result
                          ELSE SetEntry(result, 0,
                                  GetSimpleTransitionKey(GetSimpleTransition(raw)),
                                  GetSimpleTransition(raw))))
    /\ w' = [w EXCEPT !.pc = "put-attach"]
    /\ UNCHANGED <<fatal, lock, rd, history, queries>>

\* SetPrototypeTransitions, line 490: the array refers to the cache.
PSetPrototypeTransitions ==
    /\ w.pc = "put-attach"
    /\ heap' = [heap EXCEPT ![raw.arr].proto = w.cache]
    /\ w' = [w EXCEPT !.pc = "put-set"]
    /\ UNCHANGED <<raw, fatal, lock, rd, history, queries>>

\* PutPrototypeTransition, lines 401-404: cache->Set(entry, target_map).
PSetTarget ==
    /\ w.pc = "put-set"
    /\ LET last_number == w.cache.n
           cache == [w.cache EXCEPT !.slot[last_number] = w.call.target]
       IN  /\ heap' = WritesThrough(heap, cache)
           /\ w' = [w EXCEPT !.cache = cache, !.pc = "put-number"]
    /\ UNCHANGED <<raw, fatal, lock, rd, history, queries>>

\* PutPrototypeTransition, line 405: SetNumberOfPrototypeTransitions.
PSetNumber ==
    /\ w.pc = "put-number"
    /\ LET cache == [w.cache EXCEPT !.n = @ + 1]
       IN  /\ heap' = WritesThrough(heap, cache)
           /\ w' = [w EXCEPT !.cache = cache, !.pc = "put-unlock"]
    /\ UNCHANGED <<raw, fatal, lock, rd, history, queries>>

\* PutPrototypeTransition, lines 392 and 406: the guard's scope ends.
PUnlock ==
    /\ w.pc = "put-unlock"
    /\ lock' = ExclusiveGuardEnds(lock)
    /\ w' = WriterIdle(w.ops + 1)
    /\ UNCHANGED <<raw, heap, fatal, rd, history, queries>>

NextWriter ==
    \/ \E call \in WriterCalls :
          \/ WStoreSimple(call)
          \/ WAllocateFirst(call)
          \/ WAllocateTwo(call)
          \/ WBeginOverwrite(call)
          \/ WTooMany(call)
          \/ WBeginInPlace(call)
          \/ WAllocateGrow(call)
    \/ WSetNew \/ WSetSimple \/ WCountTwo \/ WMoveSimple
    \/ WSetKeyTwo \/ WSetRawTargetTwo \/ WPublish
    \/ WLock \/ WOverwriteTarget \/ WCount \/ WShiftKey \/ WShiftTarget
    \/ WInsertKey \/ WInsertTarget \/ WUnlock
    \/ WCopyPrototypeTransitions \/ WCopy
    \/ \E call \in PutCalls : PBegin(call)
    \/ PLock \/ PCompact \/ PGrow \/ PEnsureHasFullTransitionArray
    \/ PSetPrototypeTransitions \/ PSetTarget \/ PSetNumber \/ PUnlock

SpecWriter == Init /\ [][NextWriter]_vars

\* --------------------------------------------------------------- C11
\* A step of the writer that allocates: a TransitionArray appears on the
\* heap, or GrowPrototypeTransitionArray makes the bigger cache.
Allocates ==
    \/ DOMAIN heap' \ DOMAIN heap # {}
    \/ w.pc = "put-grow" /\ w'.pc = "put-ensure"

\* C11: no operation makes an allocating call while it holds the shared
\* or the exclusive lock: in Insert and in PutPrototypeTransition every
\* allocation happens with the lock released.
C11_NoAllocationUnderLock ==
    [][Allocates => lock = "free"]_vars

\* --------------------------------------------------------------- C12
\* The place of an encoding in the order Uninitialized/MigrationTarget,
\* SimpleTransition, FullTransitionArray; a prototype map's storage holds
\* its prototype info and is no part of the order.
EncodingRank(encoding) ==
    CASE encoding \in {"kUninitialized", "kMigrationTarget"} -> 0
      [] encoding = "kWeakRef" -> 1
      [] encoding = "kFullTransitionArray" -> 2
      [] OTHER -> 3

\* C12 as stated: along every execution of Insert, SetMigrationTarget,
\* PutPrototypeTransition and collection steps the encoding never moves
\* downward in the order; in particular a SimpleTransition never becomes
\* Uninitialized.
C12_NeverDownward ==
    [][EncodingRank(raw'.enc) >= EncodingRank(raw.enc)]_vars

\* C12, amended: the encoding never moves downward in the order except
\* that a SimpleTransition becomes Uninitialized when a collection clears
\* its weakly held target; a FullTransitionArray stays one.
C12_DownwardOnlyWhenCleared ==
    [][\/ EncodingRank(raw'.enc) >= EncodingRank(raw.enc)
       \/ /\ raw.enc = "kWeakRef"
          /\ raw'.enc = "kUninitialized"
          /\ last'.op = "Collect"]_vars

\* A collection has cleared the simple transition of a map.
C12_Witness ==
    /\ last.op = "Collect"
    /\ raw.enc = "kUninitialized"
    /\ collected

\* --------------------------------------------------------------- C13
\* Caching is enabled for the map: lines 377-378 do not return.
CachingEnabled ==
    /\ ~mode.is_prototype_map
    /\ ~mode.is_dictionary_map
    /\ mode.cache_prototype_transitions

\* C13 as stated: on a map with caching enabled, GetPrototypeTransition(p)
\* after PutPrototypeTransition(p, t) returns t, or none when a collection
\* has cleared that entry since, whatever Puts, Gets and collections came
\* before.
C13_GetReturnsLastPut ==
    (/\ out.op = "GetPrototypeTransition"
     /\ CachingEnabled
     /\ out.put.target # NoMap)
        => out.result = IF out.put.cleared THEN NoMap ELSE out.put.target


\* --------------------------------------------------------------- C14
\* The maps of the live slots of a cache, in the order of the slots.
IsLive(value) == value # ClearedValue
LiveEntries(cache) ==
    SelectSeq([k \in 1..cache.n |-> cache.slot[k - 1]], IsLive)

\* The cache is full and a collection has cleared at least one slot.
FullWithClearedSlot(cache) ==
    /\ cache.n = cache.cap
    /\ \E i \in 0..(cache.n - 1) : cache.slot[i] = ClearedValue

\* C14: a PutPrototypeTransition that finds the cache full with at least
\* one cleared slot compacts instead of growing: the capacity and the
\* array stay, the surviving entries stand at the front in their order,
\* the new entry directly follows them, and the count is the number of
\* survivors and one.
C14_CompactionBeforeGrowth ==
    [][\A call \in PutCalls :
          (/\ PutPrototypeTransition(call)
           /\ CachingEnabled
           /\ FullWithClearedSlot(GetPrototypeTransitions(raw, heap)))
          => LET before == GetPrototypeTransitions(raw, heap)
                 after == GetPrototypeTransitions(raw', heap')
                 survivors == LiveEntries(before)
             IN  /\ raw' = raw
                 /\ after.cap = before.cap
                 /\ Len(survivors) < before.n
                 /\ after.n = Len(survivors) + 1
                 /\ \A k \in 1..Len(survivors) : after.slot[k - 1] = survivors[k]
                 /\ after.slot[Len(survivors)] = call.target
                 /\ \A i \in (Len(survivors) + 1)..(after.cap - 1) :
                        after.slot[i] = UndefinedValue]_vars

\* A Put has compacted the cache onto at least one survivor and appended
\* its entry.
C14_Witness ==
    /\ last.op = "PutPrototypeTransition"
    /\ last.path = "compacted"
    /\ GetPrototypeTransitions(raw, heap).n >= 2
    /\ GetPrototypeTransitions(raw, heap).n < GetPrototypeTransitions(raw, heap).cap

\* --------------------------------------------------------------- C15
\* C15: a PutPrototypeTransition that finds the cache full, with no
\* cleared slot to compact away and with the capacity at
\* kMaxCachedPrototypeTransitions, is skipped: the storage of the map and
\* the cache with its entries, count and capacity are unchanged and no
\* fatal failure is raised.
C15_FullCacheSkipsInsert ==
    [][\A call \in PutCalls :
          (/\ PutPrototypeTransition(call)
           /\ CachingEnabled
           /\ NoRoomAtGreatestCapacity(GetPrototypeTransitions(raw, heap)))
          => /\ raw' = raw
             /\ heap' = heap
             /\ GetPrototypeTransitions(raw', heap')
                   = GetPrototypeTransitions(raw, heap)
             /\ ~fatal']_vars

\* A Put has been skipped on a cache of the greatest capacity whose slots
\* all hold live maps.
C15_Witness ==
    /\ last.op = "PutPrototypeTransition"
    /\ last.path = "skipped"
    /\ ~fatal
    /\ GetPrototypeTransitions(raw, heap).cap = kMaxCachedPrototypeTransitions
    /\ Cardinality(LiveSlots(GetPrototypeTransitions(raw, heap)))
          = kMaxCachedPrototypeTransitions

\* -------------------------------------------- TraverseTransitionTree
\* The traversal of the transition tree of a map, over every small tree
\* of maps: the transitions of a map lead to maps created after it.
MaxWalkSlots == 2

TreeMaps == {21, 22, 23}
TreeOrigin == 21
LaterMaps(map) == {m \in TreeMaps : m > map}

\* The sequences of at most `bound` elements of a set.
SeqsUpTo(set, bound) == UNION {[1..n -> set] : n \in 0..bound}

\* The storage of a map of the tree: its encoding, the simple target,
\* the targets of the array and the slots of the prototype transitions.
TreeStorage(encoding, target, regular, proto) ==
    [enc |-> encoding, target |-> target, regular |-> regular, proto |-> proto]

\* The storages of a map without transitions.
LeafStorages ==
    {TreeStorage(encoding, NoMap, << >>, << >>) :
        encoding \in {"kUninitialized", "kMigrationTarget", "kPrototypeInfo"}}

\* The storages of `map`: none, a simple transition, or an array whose
\* entries have distinct targets and whose prototype transitions are
\* live or cleared.
StoragesOf(map) ==
    IF LaterMaps(map) = {} THEN LeafStorages
    ELSE {TreeStorage("kUninitialized", NoMap, << >>, << >>)}
         \cup {TreeStorage("kWeakRef", t, << >>, << >>) : t \in LaterMaps(map)}
         \cup {TreeStorage("kFullTransitionArray", NoMap, regular, proto) :
                 regular \in {r \in SeqsUpTo(LaterMaps(map), Cardinality(LaterMaps(map))) :
                                 \A i, j \in DOMAIN r : r[i] = r[j] => i = j},
                 proto \in SeqsUpTo(LaterMaps(map) \cup {ClearedValue}, MaxWalkSlots)}

Trees ==
    {(21 :> a) @@ (22 :> b) @@ (23 :> c) :
        a \in StoragesOf(21), b \in StoragesOf(22), c \in StoragesOf(23)}

\* TraverseTransitionTreeInternal, lines 533-565: the maps pushed for
\* current_map, in the order of the pushes.
LiveTargets(proto) ==
    SelectSeq(proto, IsLive)

Pushed(tree, current_map) ==
    CASE tree[current_map].enc = "kWeakRef" -> <<tree[current_map].target>>
      [] tree[current_map].enc = "kFullTransitionArray" ->
            LiveTargets(tree[current_map].proto) \o tree[current_map].regular
      [] OTHER -> << >>

InitTraverse ==
    /\ raw = Uninitialized
    /\ heap = << >>
    /\ fatal = FALSE
    /\ last = [op |-> "Init", path |-> "none"]
    /\ hist = [t \in Tuples |-> NoMap]
    /\ collected = FALSE
    /\ lock = "free"
    /\ w = WriterIdle(0)
    /\ rd = ReaderIdle
    /\ mode = FastMode
    /\ out = NoResult
    /\ puts = NoPuts
    /\ pages = BoundedPageAllocator
    /\ \E tree \in Trees :
          walk = [pc |-> "start", tree |-> tree, stack |-> << >>, visited |-> << >>]

\* Lines 520-521: stack.emplace_back(map_).
TraverseStart ==
    /\ walk.pc = "start"
    /\ walk' = [walk EXCEPT !.pc = "loop", !.stack = <<TreeOrigin>>]
    /\ UNCHANGED <<raw, heap, fatal, history, threads, mode, pages, out, puts>>

\* The maps are taken from the front of the work list.
TraverseVisitFromFront ==
    /\ walk.pc = "loop"
    /\ walk.stack # << >>
    /\ LET current_map == Head(walk.stack)
       IN  walk' = [walk EXCEPT
                      !.visited = Append(@, current_map),
                      !.stack = Tail(walk.stack) \o Pushed(walk.tree, current_map)]
    /\ UNCHANGED <<raw, heap, fatal, history, threads, mode, pages, out, puts>>

\* Lines 524-566, one iteration of the loop: the map at the back of the
\* stack is popped and handed to the callback, its targets are pushed.
TraverseVisit ==
    /\ walk.pc = "loop"
    /\ walk.stack # << >>
    /\ LET current_map == walk.stack[Len(walk.stack)]
       IN  walk' = [walk EXCEPT
                      !.visited = Append(@, current_map),
                      !.stack = SubSeq(walk.stack, 1, Len(walk.stack) - 1)
                                   \o Pushed(walk.tree, current_map)]
    /\ UNCHANGED <<raw, heap, fatal, history, threads, mode, pages, out, puts>>

\* Lines 524 and 568-569: the stack is empty, the traversal returns.
TraverseReturn ==
    /\ walk.pc = "loop"
    /\ walk.stack = << >>
    /\ walk' = [walk EXCEPT !.pc = "done"]
    /\ UNCHANGED <<raw, heap, fatal, history, threads, mode, pages, out, puts>>

NextTraverse == TraverseStart \/ TraverseVisit \/ TraverseReturn

\* The thread that traverses keeps running.
SpecTraverse == InitTraverse /\ [][NextTraverse]_vars /\ WF_vars(NextTraverse)

\* --------------------------------------------------------------- C16
\* The pre-order depth-first walk from `map`: the map, then the walks from
\* its targets, the target pushed last first.
RECURSIVE PreOrder(_, _)
RECURSIVE PreOrderDownFrom(_, _, _)
PreOrder(tree, map) ==
    <<map>> \o PreOrderDownFrom(tree, Pushed(tree, map), Len(Pushed(tree, map)))

PreOrderDownFrom(tree, targets, k) ==
    IF k = 0 THEN << >>
    ELSE PreOrder(tree, targets[k]) \o PreOrderDownFrom(tree, targets, k - 1)

\* The number of edges from `from` to `to`: the simple transition, the
\* entries of the array, the live prototype transitions.
EdgesBetween(tree, from, to) ==
    LET storage == tree[from]
    IN  (IF storage.enc = "kWeakRef" /\ storage.target = to THEN 1 ELSE 0)
        + Cardinality({i \in DOMAIN storage.regular : storage.regular[i] = to})
        + Cardinality({i \in DOMAIN storage.proto : storage.proto[i] = to})

Visits(visited, map) == Cardinality({k \in DOMAIN visited : visited[k] = map})

RECURSIVE VisitsOver(_, _, _, _)
VisitsOver(tree, visited, to, sources) ==
    IF sources = {} THEN 0
    ELSE LET from == CHOOSE m \in sources : TRUE
         IN  Visits(visited, from) * EdgesBetween(tree, from, to)
               + VisitsOver(tree, visited, to, sources \ {from})

\* The callback was invoked on the maps `visited`, in this order: first
\* on the origin, on every map once per visit of a map with an edge to it
\* and once per such edge, after a map with an edge to it, never on a
\* cleared slot, and depth first.
IsPreOrderWalk(tree, visited) ==
    /\ visited # << >>
    /\ visited[1] = TreeOrigin
    /\ \A k \in DOMAIN visited : visited[k] \in TreeMaps
    /\ \A m \in TreeMaps :
          Visits(visited, m) = (IF m = TreeOrigin THEN 1 ELSE 0)
                                 + VisitsOver(tree, visited, m, TreeMaps)
    /\ \A k \in DOMAIN visited :
          k > 1 => \E j \in 1..(k - 1) :
                      EdgesBetween(tree, visited[j], visited[k]) > 0
    /\ visited = PreOrder(tree, TreeOrigin)

\* C16: TraverseTransitionTreeInternal terminates, and the sequence of
\* its callbacks is the pre-order depth-first walk of the tree: the
\* origin first, every map once per edge that reaches it and after the
\* map it was reached from, cleared prototype slots skipped.
C16_TraversalIsPreOrder ==
    /\ <>(walk.pc = "done")
    /\ [](walk.pc = "done" => IsPreOrderWalk(walk.tree, walk.visited))

\* A traversal has returned from a tree in which a map is reached over
\* two edges and a prototype slot is cleared.
C16_Witness ==
    /\ walk.pc = "done"
    /\ \E m \in TreeMaps : Visits(walk.visited, m) >= 2
    /\ \E m \in TreeMaps : \E i \in DOMAIN walk.tree[m].proto :
          walk.tree[m].proto[i] = ClearedValue
    /\ Len(walk.visited) >= 4

\* --------------------------------------------------------------- C17
\* The targets of the edges of the storage (r, h) whose key is `name`, in
\* the order of the array.
HasKey(name, slot) == slot.key = name

RECURSIVE TargetsOfKey(_, _, _)
TargetsOfKey(array, name, i) ==
    IF i >= array.n THEN << >>
    ELSE (IF HasKey(name, array.e[i]) THEN <<array.e[i].target>> ELSE << >>)
            \o TargetsOfKey(array, name, i + 1)

EdgesTo(r, h, name) ==
    CASE r.enc = "kWeakRef" ->
            IF LastAdded(r.target).key = name THEN <<r.target>> ELSE << >>
      [] r.enc = "kFullTransitionArray" -> TargetsOfKey(h[r.arr], name, 0)
      [] OTHER -> << >>

\* C17: ForEachTransitionTo(name, callback) invokes the callback once for
\* each edge whose key is name, whatever its kind and attributes, and for
\* no other edge: at most once for a simple transition, never in the
\* encodings Uninitialized, MigrationTarget and PrototypeInfo.
C17_OncePerEdgeOfName ==
    [][\A name \in Keys :
          ForEachTransitionTo(name)
          => /\ out'.result = EdgesTo(raw, heap, name)
             /\ raw.enc = "kWeakRef" => Len(out'.result) <= 1
             /\ raw.enc \in {"kUninitialized", "kMigrationTarget", "kPrototypeInfo"}
                   => out'.result = << >>]_vars

\* The callback has been invoked for both edges of a name in an array
\* that holds an edge of another name with the same hash.
C17_Witness ==
    /\ out.op = "ForEachTransitionTo"
    /\ out.name = "x"
    /\ Len(out.result) = 2
    /\ raw.enc = "kFullTransitionArray"
    /\ EdgesTo(raw, heap, "x") = out.result
    /\ EdgesTo(raw, heap, "y") # << >>

\* --------------------------------------- HasIntegrityLevelTransitionTo
\* The query on every storage that holds any of the three integrity
\* level transitions, beside a property transition or not, and on the
\* storages without an array.

\* The array of the special edges frozen -> f, sealed -> s and
\* nonextensible -> n and of the property edge "x" -> x (NoMap: there is
\* no such edge), in the order of the hashes.
Present(name, target) ==
    IF target = NoMap THEN << >> ELSE <<[key |-> name, target |-> target]>>

IntegrityArray(f, x, s, n) ==
    LET entries == Present("frozen", f) \o Present("x", x)
                     \o Present("sealed", s) \o Present("nonextensible", n)
    IN  [NewTransitionArray(Len(entries), 0) EXCEPT
            !.e = [i \in 0..(Len(entries) - 1) |-> entries[i + 1]]]

IntegrityStorages ==
    {[raw |-> FullTransitionArray(NewAddress),
      heap |-> NewAddress :> IntegrityArray(f, x, s, n)] :
        f \in SpecialTargets \cup {NoMap}, x \in {1, NoMap},
        s \in SpecialTargets \cup {NoMap}, n \in SpecialTargets \cup {NoMap}}
    \cup {[raw |-> r, heap |-> << >>] :
            r \in {Uninitialized, WeakRef(1), MigrationTarget(11), PrototypeInfo}}

\* The out-parameters before the first query.
NoOutputs ==
    [op |-> "none", to |-> NoMap, result |-> FALSE, symbol |-> NoKey, level |-> -1]

InitIntegrity ==
    /\ \E storage \in IntegrityStorages : raw = storage.raw /\ heap = storage.heap
    /\ fatal = FALSE
    /\ last = [op |-> "Init", path |-> "none"]
    /\ hist = [t \in Tuples |-> NoMap]
    /\ collected = FALSE
    /\ lock = "free"
    /\ w = WriterIdle(0)
    /\ rd = ReaderIdle
    /\ mode = FastMode
    /\ out = NoOutputs
    /\ walk = NoWalk
    /\ puts = NoPuts
    /\ pages = BoundedPageAllocator

\* The sealed symbol is looked up before the frozen one.
SealedBeforeFrozen(r, h, to, out_symbol, out_integrity_level) ==
    IF SearchSpecialOf(r, h, "sealed") = to
    THEN [result |-> TRUE, symbol |-> "sealed", level |-> SEALED]
    ELSE IF SearchSpecialOf(r, h, "frozen") = to
    THEN [result |-> TRUE, symbol |-> "frozen", level |-> FROZEN]
    ELSE IF SearchSpecialOf(r, h, "nonextensible") = to
    THEN [result |-> TRUE, symbol |-> "nonextensible", level |-> NONE]
    ELSE [result |-> FALSE, symbol |-> out_symbol, level |-> out_integrity_level]

\* HasIntegrityLevelTransitionTo(to, out_symbol, out_integrity_level),
\* lines 724-740, on the storage (r, h): the result and the contents of
\* the out-parameters after the call.
HasIntegrityLevelTransitionToIn(r, h, to, out_symbol, out_integrity_level) ==
    IF SearchSpecialOf(r, h, "frozen") = to
    THEN [result |-> TRUE, symbol |-> "frozen", level |-> FROZEN]
    ELSE IF SearchSpecialOf(r, h, "sealed") = to
    THEN [result |-> TRUE, symbol |-> "sealed", level |-> SEALED]
    ELSE IF SearchSpecialOf(r, h, "nonextensible") = to
    THEN [result |-> TRUE, symbol |-> "nonextensible", level |-> NONE]
    ELSE [result |-> FALSE, symbol |-> out_symbol, level |-> out_integrity_level]

\* The maps asked about: the targets of special transitions and a map
\* that is the target of none.
IntegrityQueries == SpecialTargets \cup {1}

HasIntegrityLevelTransitionTo(to) ==
    /\ ~fatal
    /\ LET answer == HasIntegrityLevelTransitionToIn(raw, heap, to,
                                                     out.symbol, out.level)
       IN  out' = [op |-> "HasIntegrityLevelTransitionTo", to |-> to,
                   result |-> answer.result, symbol |-> answer.symbol,
                   level |-> answer.level]
    /\ UNCHANGED <<raw, heap, fatal, history, threads, mode, pages, walk, puts>>

NextIntegrity == \E to \in IntegrityQueries : HasIntegrityLevelTransitionTo(to)

SpecIntegrity == InitIntegrity /\ [][NextIntegrity]_vars

\* --------------------------------------------------------------- C18
\* The target of the special edge of `symbol` in the storage (r, h), NoMap
\* without such an edge.
SpecialEdge(r, h, symbol) ==
    IF r.enc # "kFullTransitionArray" THEN NoMap
    ELSE LET edges == {i \in 0..(h[r.arr].n - 1) : h[r.arr].e[i].key = symbol}
         IN  IF edges = {} THEN NoMap
             ELSE h[r.arr].e[CHOOSE i \in edges : TRUE].target

\* C18: HasIntegrityLevelTransitionTo(to) looks at the frozen, the sealed
\* and the nonextensible edge in this order and answers with the first
\* whose target is `to`, with frozen/FROZEN, sealed/SEALED or
\* nonextensible/NONE; for a map that is the target of none of them, and
\* in every encoding but the full array, it returns false and leaves the
\* out-parameters as they were.
C18_FirstIntegrityLevelEdge ==
    [][\A to \in IntegrityQueries :
          HasIntegrityLevelTransitionTo(to)
          => LET frozen == SpecialEdge(raw, heap, "frozen") = to
                 sealed == SpecialEdge(raw, heap, "sealed") = to
                 nonextensible == SpecialEdge(raw, heap, "nonextensible") = to
             IN  /\ frozen
                      => out'.result /\ out'.symbol = "frozen" /\ out'.level = FROZEN
                 /\ ~frozen /\ sealed
                      => out'.result /\ out'.symbol = "sealed" /\ out'.level = SEALED
                 /\ ~frozen /\ ~sealed /\ nonextensible
                      => /\ out'.result
                         /\ out'.symbol = "nonextensible"
                         /\ out'.level = NONE
                 /\ ~frozen /\ ~sealed /\ ~nonextensible
                      => /\ ~out'.result
                         /\ out'.symbol = out.symbol
                         /\ out'.level = out.level
                 /\ raw.enc # "kFullTransitionArray" => ~out'.result]_vars

\* The query has answered sealed for a map that is the target of the
\* sealed and of the nonextensible edge but not of the frozen edge.
C18_Witness ==
    /\ out.op = "HasIntegrityLevelTransitionTo"
    /\ out.result
    /\ out.symbol = "sealed"
    /\ out.level = SEALED
    /\ SpecialEdge(raw, heap, "frozen") \notin {NoMap, out.to}
    /\ SpecialEdge(raw, heap, "sealed") = out.to
    /\ SpecialEdge(raw, heap, "nonextensible") = out.to

\* --------------------------------------------------------------- C19
\* C19: SetMigrationTarget(map) on an Uninitialized storage makes it a
\* MigrationTarget of which GetMigrationTarget returns the map; in every
\* other encoding it leaves the storage as it is; GetMigrationTarget
\* returns the stored map of a MigrationTarget and none in every other
\* encoding.
C19_MigrationTargetOnlyFromUninitialized ==
    [][/\ \A migration_target \in MigrationTargets :
            SetMigrationTarget(migration_target)
            => IF raw.enc = "kUninitialized"
               THEN /\ raw'.enc = "kMigrationTarget"
                    /\ GetMigrationTargetIn(raw') = migration_target
                    /\ heap' = heap
               ELSE raw' = raw /\ heap' = heap
       /\ GetMigrationTarget
            => /\ raw.enc = "kMigrationTarget" => out'.result = raw.target
               /\ raw.enc # "kMigrationTarget" => out'.result = NoMap]_vars

\* GetMigrationTarget has returned the map that SetMigrationTarget stored.
C19_Witness ==
    /\ last.op = "SetMigrationTarget"
    /\ raw.enc = "kMigrationTarget"
    /\ out.op = "GetMigrationTarget"
    /\ out.result = raw.target
    /\ out.result \in MigrationTargets

\* --------------------------------------------------------------- C20
\* NumberOfTransitions(), lines 443-456, on the storage (r, h).
NumberOfTransitionsIn(r, h) ==
    CASE r.enc = "kWeakRef" -> 1
      [] r.enc = "kFullTransitionArray" -> h[r.arr].n
      [] OTHER -> 0

\* C20: a map in dictionary mode never gains transitions: whatever
\* Inserts and PutPrototypeTransitions are made on it, its number of
\* transitions and of cached prototype transitions stays zero.
C20_DictionaryMapGainsNothing ==
    mode.is_dictionary_map
        => /\ NumberOfTransitionsIn(raw, heap) = 0
           /\ GetPrototypeTransitions(raw, heap).n = 0

\* ----------------------------------------------------------------- Sort
\* TransitionArray::Sort() on the arrays of a bulk construction: up to
\* MaxSortLength entries with pairwise distinct (name, kind, attributes)
\* tuples, in every order.
MaxSortLength == 3

\* The edges an unsorted array is built from; "x" and "y" have equal
\* hashes, and three of the edges share the name "x".
SortEntries ==
    {[key |-> LastAdded(t).key, target |-> t] : t \in {1, 3, 4, 5}}
        \cup {[key |-> "frozen", target |-> 7], [key |-> "sealed", target |-> 8]}

UnsortedArrays ==
    {[NewTransitionArray(Len(entries), 0) EXCEPT
         !.e = [i \in 0..(Len(entries) - 1) |-> entries[i + 1]]] :
       entries \in {s \in SeqsUpTo(SortEntries, MaxSortLength) :
                       \A i, j \in 1..Len(s) : i # j => s[i] # s[j]}}

InitSort ==
    /\ \E array \in UnsortedArrays :
          /\ raw = FullTransitionArray(NewAddress)
          /\ heap = NewAddress :> array
    /\ fatal = FALSE
    /\ last = [op |-> "Init", path |-> "none"]
    /\ hist = [t \in Tuples |-> NoMap]
    /\ collected = FALSE
    /\ lock = "free"
    /\ w = WriterIdle(0)
    /\ rd = ReaderIdle
    /\ mode = FastMode
    /\ out = NoResult
    /\ walk = NoWalk
    /\ puts = NoPuts
    /\ pages = BoundedPageAllocator

\* The inner loop of Sort, lines 696-719: the entries at j, j - 1, ...
\* that compare greater than (key, target) move up by one, and the entry
\* is set behind the first that does not.
RECURSIVE SortInsert(_, _, _, _)
SortInsert(array, j, key, target) ==
    IF j >= 0
    THEN LET temp_key == array.e[j].key
             temp_target == array.e[j].target
             temp == EntryDetails(array.e[j])
             details == EntryDetails([key |-> key, target |-> target])
             cmp == CompareKeys(temp_key, Hash(temp_key), temp.kind,
                                temp.attributes, key, Hash(key), details.kind,
                                details.attributes)
         IN  IF cmp > 0
             THEN SortInsert(SetEntry(array, j + 1, temp_key, temp_target),
                             j - 1, key, target)
             ELSE SetEntry(array, j + 1, key, target)
    ELSE SetEntry(array, j + 1, key, target)

\* The outer loop of Sort, lines 683-720.
RECURSIVE SortFrom(_, _)
SortFrom(array, i) ==
    IF i < array.n
    THEN SortFrom(SortInsert(array, i - 1, array.e[i].key, array.e[i].target),
                  i + 1)
    ELSE array

\* TransitionArray::Sort(), lines 678-722, with its closing
\* DCHECK(IsSortedNoDuplicates()).
Sort ==
    /\ ~fatal
    /\ last.op = "Init"
    /\ raw.enc = "kFullTransitionArray"
    /\ LET sorted == SortFrom(Transitions, 1)
       IN  /\ heap' = [heap EXCEPT ![raw.arr] = sorted]
           /\ fatal' = ~IsSortedNoDuplicates(sorted)
    /\ last' = [op |-> "Sort", path |-> "none"]
    /\ out' = [op |-> "Sort", before |-> Transitions]
    /\ UNCHANGED <<raw, hist, collected, threads, mode, pages, walk, puts>>

NextSort == Sort

SpecSort == InitSort /\ [][NextSort]_vars

\* --------------------------------------------------------------- C21
\* The index at which the lookup of the entry `slot` finds it in `array`:
\* SearchSpecial for a special symbol, Search(kind, name, attributes) for
\* a property.
FoundAt(array, slot) ==
    IF IsSpecialTransition(slot.key)
    THEN SearchSpecialIn(array, slot.key, kNotFound).index
    ELSE Search(array, EntryDetails(slot).kind, slot.key,
                EntryDetails(slot).attributes, kNotFound).index

\* C21: Sort(), on an array of entries with pairwise distinct tuples in
\* any order, keeps the entries, passes its check of the order, and leaves
\* every entry where its lookup finds it, also when names of equal hash
\* are interleaved with entries that share a name.
C21_SortMakesEveryEntryFound ==
    last.op = "Sort"
        => /\ ~fatal
           /\ Transitions.n = out.before.n
           /\ {Transitions.e[i] : i \in 0..(Transitions.n - 1)}
                = {out.before.e[i] : i \in 0..(out.before.n - 1)}
           /\ IsSortedNoDuplicates(Transitions)
           /\ \A i \in 0..(Transitions.n - 1) :
                 FoundAt(Transitions, Transitions.e[i]) = i

\* ------------------------------------- Insert beside PutPrototypeTransition
\* The Inserts and the Puts of one fast map, each with the collection that
\* its allocation admits.

\* The Inserts: four tuples, and a second target for one of them, so that
\* an entry is overwritten with another target.
FrameInsertCalls ==
    ModesInsertCalls
        \cup {[name |-> "x", target |-> 2, flag |-> "SIMPLE_PROPERTY_TRANSITION"]}

\* The Puts: a map for each prototype.
FramePutCalls == {call \in PutCalls : call.target \in {9, 10}}

NextFrame ==
    \/ \E call \in FrameInsertCalls :
          \/ InsertUninitialized(call)
          \/ InsertSimpleOverwrite(call)
          \/ InsertSimpleCleared(call)
          \/ InsertSimpleToFull(call)
          \/ InsertOverwrite(call)
          \/ InsertInPlace(call)
          \/ InsertGrow(call)
    \/ \E call \in FramePutCalls : PutPrototypeTransition(call)

SpecFrame == Init /\ [][NextFrame]_vars

\* --------------------------------------------------------------- C22
\* A step of an Insert that took one of `paths` into a full transition
\* array and changed the storage; an Insert that leaves the storage as it
\* is (the target it overwrites is the one it stores) changes no lookup.
InsertIntoFullArray(paths) ==
    /\ raw.enc = "kFullTransitionArray"
    /\ last'.op = "Insert"
    /\ last'.path \in paths
    /\ <<raw', heap'>> # <<raw, heap>>

\* C22 as stated: an Insert into a full transition array changes the
\* result of GetPrototypeTransition for no prototype, on the overwrite,
\* the in-place and both reallocation paths.
C22_InsertKeepsPrototypeTransitions ==
    [][InsertIntoFullArray({"overwrite", "in-place", "grow", "grow-shrunk"})
          => \A p \in Prototypes :
                GetPrototypeTransitionIn(raw', heap', p)
                    = GetPrototypeTransitionIn(raw, heap, p)]_vars

\* C22, amended: an Insert into a full transition array leaves the
\* prototype transitions as they are on the overwrite and the in-place
\* path; on the reallocation paths the new array has the same prototype
\* transitions but for the weak slots that the collection at the
\* allocation cleared, and GetPrototypeTransition returns the same result
\* for every prototype whose result was not cleared.
C22_InsertKeepsUnclearedPrototypeTransitions ==
    [][/\ InsertIntoFullArray({"overwrite", "in-place"})
            => TransitionsOf(raw', heap').proto = Transitions.proto
       /\ InsertIntoFullArray({"grow", "grow-shrunk"})
            => LET before == Transitions.proto
                   after == TransitionsOf(raw', heap').proto
               IN  /\ after.cap = before.cap
                   /\ after.n = before.n
                   /\ \A i \in DOMAIN before.slot :
                         \/ after.slot[i] = before.slot[i]
                         \/ /\ i \in LiveSlots(before)
                            /\ after.slot[i] = ClearedValue
                   /\ \A p \in Prototypes :
                         LET result == GetPrototypeTransitionIn(raw, heap, p)
                         IN  result \in CachedMaps(after) \cup {NoMap}
                               => GetPrototypeTransitionIn(raw', heap', p)
                                    = result]_vars

\* An Insert has reallocated an array that shrank during the allocation,
\* and the prototype transition cached before it is still returned.
C22_Witness ==
    /\ last.op = "Insert"
    /\ last.path = "grow-shrunk"
    /\ puts["p1"].stored
    /\ ~puts["p1"].cleared
    /\ GetPrototypeTransitionIn(raw, heap, "p1") = puts["p1"].target

\* --------------------------------------------------------------- C23
\* A step of a PutPrototypeTransition that took one of `paths` and changed
\* the storage.
PutTakes(paths) ==
    /\ last'.op = "PutPrototypeTransition"
    /\ last'.path \in paths
    /\ <<raw', heap'>> # <<raw, heap>>

\* C23: a prototype transition cache, once there is one, has
\* 0 <= count <= capacity <= kMaxCachedPrototypeTransitions in every
\* reachable state; every growth, also the one from no cache at all,
\* makes the capacity strictly greater, the least of
\* kMaxCachedPrototypeTransitions and 2 * (count + 1); and the slot that a
\* PutPrototypeTransition writes is below the capacity.
C23_CacheWithinCapacity ==
    /\ [](LET cache == GetPrototypeTransitions(raw, heap)
          IN  cache # EmptyWeakFixedArray
                => /\ 0 <= cache.n
                   /\ cache.n <= cache.cap
                   /\ cache.cap <= kMaxCachedPrototypeTransitions)
    /\ [][LET before == GetPrototypeTransitions(raw, heap)
              after == GetPrototypeTransitions(raw', heap')
          IN  /\ PutTakes({"grown"})
                   => /\ after.cap > before.cap
                      /\ after.cap
                           = IF kMaxCachedPrototypeTransitions < 2 * (before.n + 1)
                             THEN kMaxCachedPrototypeTransitions
                             ELSE 2 * (before.n + 1)
              /\ PutTakes({"appended", "compacted", "grown"})
                   => /\ after.n - 1 < after.cap
                      /\ after.slot[after.n - 1] = puts'[PrototypeOf(
                                                      after.slot[after.n - 1])].target
                      /\ \A i \in DOMAIN after.slot :
                            i >= after.n => after.slot[i] \notin PrototypeTargets]_vars

\* A cache that was full of live entries has grown to the greatest
\* capacity, less than twice its need, and has taken the new entry.
C23_Witness ==
    /\ last.op = "PutPrototypeTransition"
    /\ last.path = "grown"
    /\ GetPrototypeTransitions(raw, heap).cap = kMaxCachedPrototypeTransitions
    /\ GetPrototypeTransitions(raw, heap).n = 3
    /\ GetPrototypeTransitions(raw, heap).slot[2] \in PrototypeTargets

\* --------------------------------------------------------------- C24
\* C24: a PutPrototypeTransition with no collection during it changes the
\* result of SearchTransition and of SearchSpecial for no tuple; on a
\* SimpleTransition shape the new full array holds the one edge, with the
\* same key and target and the count 1, and on an Uninitialized shape it
\* has the count 0.
C24_PutKeepsRegularEdges ==
    [][PutTakes({"appended", "compacted", "grown"})
          => /\ \A tuple \in Tuples :
                   LookupIn(raw', heap', tuple) = LookupIn(raw, heap, tuple)
             /\ raw.enc = "kWeakRef"
                   => /\ raw'.enc = "kFullTransitionArray"
                      /\ TransitionsOf(raw', heap').n = 1
                      /\ TransitionsOf(raw', heap').e[0]
                           = [key |-> GetSimpleTransitionKey(raw.target),
                              target |-> raw.target]
             /\ raw.enc = "kUninitialized"
                   => /\ raw'.enc = "kFullTransitionArray"
                      /\ TransitionsOf(raw', heap').n = 0
             /\ raw.enc = "kFullTransitionArray"
                   => /\ raw' = raw
                      /\ [TransitionsOf(raw', heap') EXCEPT !.proto = EmptyWeakFixedArray]
                           = [Transitions EXCEPT !.proto = EmptyWeakFixedArray]]_vars

\* A PutPrototypeTransition on a SimpleTransition shape has made the full
\* array of its one edge, which the lookup still finds.
C24_Witness ==
    /\ last.op = "PutPrototypeTransition"
    /\ last.path = "grown"
    /\ Transitions.n = 1
    /\ Transitions.cap = 1
    /\ Transitions.proto.n = 1
    /\ Transitions.e[0] = [key |-> "x", target |-> 1]
    /\ Lookup(<<"x", kData, NONE>>) = 1

\* --------------------------------------------------------------- C25
\* The one-entry array that holds the simple transition, lines 77-92.
ArrayOfSimpleTransition(simple_transition) ==
    SetEntry(NewTransitionArray(1, 1), 0,
             GetSimpleTransitionKey(simple_transition), simple_transition)

\* C25: whenever an Insert on a SimpleTransition shape builds the
\* two-entry array, the search for the new edge in the one-entry array of
\* the old edge returns kNotFound and writes the insertion index 0 or 1,
\* and DCHECK_EQ(index, kNotFound) holds, for every flag.
C25_NewTupleNotInSimpleArray ==
    [][\A call \in InsertCalls :
          InsertSimpleToFull(call) \/ InsertSimpleDuplicate(call)
          => LET found == SearchInResult(ArrayOfSimpleTransition(raw.target),
                                         call, kNotFound)
             IN  /\ found.index = kNotFound
                 /\ found.ins \in {0, 1}
                 /\ ~fatal']_vars

\* ---------------------------- GetPrototypeTransition beside the writer
\* A background GetPrototypeTransition, one read at a time and with no
\* lock, beside the steps of PutPrototypeTransition and the collections
\* that clear cached maps.

\* GetPrototypeTransition, lines 411-412: the cache and its length.
GLoad(prototype) ==
    /\ ~fatal
    /\ rd.pc = "idle"
    /\ rd' = [ReaderIdle EXCEPT
                !.pc = "get-slot", !.op = "GetPrototypeTransition",
                !.tuple = <<prototype, kData, NONE>>,
                !.arr = raw.arr,
                !.len = GetPrototypeTransitions(raw, heap).n]
    /\ UNCHANGED <<raw, heap, fatal, lock, w, history, queries>>

\* The slot that the reader is about to read.
GSlot == heap[rd.arr].proto.slot[rd.i]

\* GetPrototypeTransition, lines 413-425: one turn of the loop, or the
\* return after it.  DCHECK(target->IsWeakOrCleared()) fails on a slot
\* that holds undefined; a release build takes the slot for not weak and
\* goes on.
GRead ==
    /\ ~fatal
    /\ rd.pc = "get-slot"
    /\ IF rd.i >= rd.len
       THEN /\ rd' = ReaderIdle
            /\ out' = [op |-> "GetPrototypeTransition", prototype |-> rd.tuple[1],
                       result |-> NoMap]
            /\ UNCHANGED fatal
       ELSE IF GSlot = UndefinedValue
       THEN \/ fatal' = TRUE /\ UNCHANGED <<rd, out>>
            \/ rd' = [rd EXCEPT !.i = @ + 1] /\ UNCHANGED <<fatal, out>>
       ELSE IF GSlot # ClearedValue /\ PrototypeOf(GSlot) = rd.tuple[1]
       THEN /\ rd' = ReaderIdle
            /\ out' = [op |-> "GetPrototypeTransition", prototype |-> rd.tuple[1],
                       result |-> GSlot]
            /\ UNCHANGED fatal
       ELSE rd' = [rd EXCEPT !.i = @ + 1] /\ UNCHANGED <<fatal, out>>
    /\ UNCHANGED <<raw, heap, lock, w, history, mode, pages, walk, puts>>

\* A collection between two operations of the main thread.
ClearBetweenPuts == w.pc = "idle" /\ ClearPrototypeTransitions

NextCache ==
    \/ \E call \in FramePutCalls : PBegin(call)
    \/ PLock \/ PCompact \/ PGrow \/ PEnsureHasFullTransitionArray
    \/ PSetPrototypeTransitions \/ PSetTarget \/ PSetNumber \/ PUnlock
    \/ ClearBetweenPuts
    \/ \E prototype \in Prototypes : GLoad(prototype)
    \/ GRead

SpecCache == Init /\ [][NextCache]_vars

\* --------------------------------------------------------------- C26
\* C26: a GetPrototypeTransition that takes no lock and runs beside a
\* PutPrototypeTransition reads only slots that hold a weak or a cleared
\* reference, so that its DCHECK(target->IsWeakOrCleared()) holds, and
\* returns no map but one of the prototype asked for.
C26_LockFreeGetReadsWeakSlots ==
    /\ ~fatal
    /\ rd.pc = "get-slot" /\ rd.i < rd.len => GSlot # UndefinedValue
    /\ out.op = "GetPrototypeTransition" /\ out.result # NoMap
         => PrototypeOf(out.result) = out.prototype

\* --------------------------------------------------------------- C27
\* The targets of the regular edges that the storage (r, h) hands to its
\* readers: SearchDetails (line 607), ForEachTransitionTo (line 673), Sort
\* (lines 685 and 698) and TraverseTransitionTreeInternal (line 563) read
\* the targets at the indices below number_of_transitions(), and
\* SearchTransition (line 229), ForEachTransitionTo (line 284) and the
\* traversal (lines 540-541) read the simple target of a kWeakRef.
TargetsRead(r, h) ==
    CASE r.enc = "kWeakRef" -> {r.target}
      [] r.enc = "kFullTransitionArray" ->
            {h[r.arr].e[i].target : i \in 0..(h[r.arr].n - 1)}
      [] OTHER -> {}

\* C27: in every reachable state each target that the lookups, Sort and
\* the traversal read, at an index below the count of a full array or as
\* the simple target, is a live map, never a cleared or a null one.
C27_TargetsReadAreLive ==
    ~fatal => TargetsRead(raw, heap) \subseteq Targets

\* ------------------------------------------------ BoundedPageAllocator
\* The pages of the used regions of the region bookkeeping.
UsedPages(regions) ==
    UNION {address..(address + regions[address] - 1) : address \in PageAddresses}

\* RegionAllocator::AllocateRegion(size): the lowest address at which size
\* free pages follow one another, kAllocationFailure when there is none.
AllocateRegion(regions, size) ==
    LET fits == {address \in PageAddresses :
                    /\ address + size <= NumberOfPages
                    /\ (address..(address + size - 1)) \cap UsedPages(regions) = {}}
    IN  IF fits = {} THEN kAllocationFailure
        ELSE CHOOSE address \in fits : \A other \in fits : address <= other

\* RegionAllocator::FreeRegion(address): the region that begins at address
\* is free afterwards; the call returns the size it had (0: none began there).
FreeRegion(regions, address) == [regions EXCEPT ![address] = 0]

\* PageAllocator::SetPermissions(address, size, access).
SetPermissions(permissions, address, size, access) ==
    [page \in PageAddresses |->
        IF page \in address..(address + size - 1) THEN access
        ELSE permissions[page]]

InitPages ==
    /\ raw = Uninitialized
    /\ heap = << >>
    /\ fatal = FALSE
    /\ last = [op |-> "Init", path |-> "none"]
    /\ hist = [t \in Tuples |-> NoMap]
    /\ collected = FALSE
    /\ lock = "free"
    /\ w = WriterIdle(0)
    /\ rd = ReaderIdle
    /\ mode = FastMode
    /\ out = NoResult
    /\ walk = NoWalk
    /\ puts = NoPuts
    /\ pages = BoundedPageAllocator

\* BoundedPageAllocator::AllocatePages(hint, size, alignment, access), the
\* alignment being at most allocate_page_size_.
AllocatePages(size, access) ==
    LET address == AllocateRegion(pages.region_allocator_, size)
    IN  /\ IF address = kAllocationFailure
           THEN UNCHANGED pages
           ELSE pages' = [region_allocator_ |->
                              [pages.region_allocator_ EXCEPT ![address] = size],
                          permissions |->
                              SetPermissions(pages.permissions, address, size, access)]
        /\ out' = [op |-> "AllocatePages", address |-> address, size |-> size,
                   result |-> address # kAllocationFailure]
        /\ UNCHANGED <<raw, heap, fatal, history, threads, mode, walk, puts>>

\* BoundedPageAllocator::FreePages(raw_address, size).
FreePages(raw_address, size) ==
    LET freed_size == pages.region_allocator_[raw_address]
        freed == FreeRegion(pages.region_allocator_, raw_address)
    IN  /\ IF freed_size # size
           THEN pages' = [pages EXCEPT !.region_allocator_ = freed]
           ELSE pages' = [region_allocator_ |-> freed,
                          permissions |->
                              SetPermissions(pages.permissions, raw_address, size,
                                             "kNoAccess")]
        /\ out' = [op |-> "FreePages", address |-> raw_address, size |-> size,
                   result |-> (freed_size = size)]
        /\ UNCHANGED <<raw, heap, fatal, history, threads, mode, walk, puts>>

NextPages ==
    \/ \E size \in 1..NumberOfPages, access \in PagePermissions :
          AllocatePages(size, access)
    \/ \E raw_address \in PageAddresses, size \in 1..NumberOfPages :
          FreePages(raw_address, size)

SpecPages == InitPages /\ [][NextPages]_vars

\* C28: FreePages(address, size) returns false when size differs from the
\* size of the region allocated at address, and a call that returns false
\* leaves the allocator unchanged: the region is still allocated in the region
\* bookkeeping and the permissions of its pages are untouched; a call that
\* returns true frees the region and sets its pages to no-access.
C28_FreePagesFalseLeavesAllocatorUnchanged ==
    [][out'.op = "FreePages" =>
          LET address == out'.address
              size == out'.size
          IN  /\ size # pages.region_allocator_[address] => ~out'.result
              /\ ~out'.result => pages' = pages
              /\ out'.result =>
                    /\ pages'.region_allocator_[address] = 0
                    /\ \A page \in address..(address + size - 1) :
                          pages'.permissions[page] = "kNoAccess"]_vars

====
